---- MODULE Spec2Model ----
(***************************************************************************)
(* Event ingestion and reconciliation pipeline of paymatch.                *)
(*                                                                         *)
(* The three tables payment_events, event_queue and payments are modelled  *)
(* as sequences of rows; the BIGSERIAL id of a row is its index.  Every    *)
(* SQL statement is one atomic step; a handler or worker step that issues  *)
(* several statements is one action unless the interleaving between its    *)
(* statements is observable by another process, in which case the worker   *)
(* keeps a program counter.                                                *)
(*                                                                         *)
(* Two deployments exist in the repository and share the tables:           *)
(*   Spec       cmd/api/main.go: Repo + one reconcile.Worker + event_queue *)
(*   SpecLease  the same with two reconcile.Worker processes               *)
(*   SpecSvc    services/event: Processor + one Worker, processing_status  *)
(*   SpecRace   the same with two event workers                            *)
(*   SpecIngest the HTTP handlers of both routers                          *)
(*   SpecPay    handlers and both kinds of worker writing one payment key  *)
(*   SpecStop   Spec with a worker that can be cancelled, under fairness   *)
(*   SpecAdmin  the admin routes of both routers                           *)
(*   SpecTenant the tenant tables and the API-key gates of both routers    *)
(*   SpecReplay the replay service with one event worker                   *)
(*   SpecSweep  Spec's confirmation handler and worker, under fairness     *)
(*   SpecReprocess  manual reprocessing of single events, two tenants      *)
(*   SpecB2C    one event worker on b2c and stk events                     *)
(*   SpecUpsert the three payment upserts of postgres.Repo                 *)
(*   SpecLate   SpecPay with an STK request arriving after its callback    *)
(* and, beside the pipeline:                                               *)
(*   SpecC2B    C2B validation, handler and service                        *)
(*   SpecToken  mpesa.Provider's access-token cache, two goroutines        *)
(*   SpecParse  callback parsing                                           *)
(*   SpecRegistry  provider.Registry                                       *)
(*   SpecReplayMax  the number of events one replay call requeues          *)
(***************************************************************************)
EXTENDS Integers, Sequences, FiniteSets, TLC

\* ---------------------------------------------------------------- bounds
MaxEvents == 2
MaxPayments == 2
MaxNow == 1
BatchLimit == 2
MaxTenants == 2
MaxCredentials == 3
\* access tokens the Daraja OAuth endpoint issues in a run
MaxTokens == 2

\* ------------------------------------------------------------- constants
Workers == {"w1", "w2"}
Tenants == {1}
ExtIDs == {"X1", "X2"}
\* the (tenant_id, type, external_id) keys that callbacks arrive with
EventKeys == { <<1, "stk", "X1">>, <<1, "balance", "X2">> }
\* the key two concurrent workers contend for
RaceKeys == { <<1, "stk", "X1">> }
Amounts == {1, 2}
NoTime == -1

\* raw_payload: whether json.Unmarshal into the worker's struct succeeds,
\* the callback ResultCode, the Amount / TransAmount value (0 when absent)
\* and the JSON type it is written in
Payloads ==
  { [decodable |-> TRUE,  ResultCode |-> 0,    Amount |-> 1,
     AmountKind |-> "number"],
    [decodable |-> TRUE,  ResultCode |-> 1032, Amount |-> 0,
     AmountKind |-> "absent"],
    [decodable |-> FALSE, ResultCode |-> 0,    Amount |-> 0,
     AmountKind |-> "absent"] }

\* BillRefNumber / AccountRef values of a request
Invoices == {"", "INV-7"}

VARIABLES
  payment_events,  \* table payment_events
  event_queue,     \* table event_queue
  payments,        \* table payments
  now,             \* database clock, in minutes
  held,            \* reconcile.Worker.tick: items still to handle, per worker
  hpc,             \* reconcile.Worker: position inside UpsertPayment
  resp,            \* last HTTP response written by a handler
  batch,           \* event.Worker.processNextBatch: events still to process
  ppc,             \* event.Processor: position inside ProcessEvent
  pfound,          \* payment.Service.ProcessPaymentEvent: existingPayment
  perr,            \* event.Processor.processPaymentEvent: local err
  lastAppend,      \* the event handed to the last append, with its id set
                   \* and the processing_status of the row it conflicted with
  tenants,         \* table tenants
  tenant_api_keys, \* table tenant_api_keys
  provider_credentials, \* table provider_credentials
  AdminToken,      \* config.Cfg.Sec.AdminToken, fixed when the process starts
  gate,            \* last request that went through an auth middleware
  call,            \* last call of a function without side effects: its
                   \* name, its arguments and what it returned
  mpesa,           \* mpesa.Provider: tokenCache and the goroutines inside it
  registry         \* provider.Registry: providers, by provider type

vars == <<payment_events, event_queue, payments, now, held, hpc, resp,
          batch, ppc, pfound, perr, lastAppend,
          tenants, tenant_api_keys, provider_credentials, AdminToken, gate,
          call, mpesa, registry>>

\* the state held in memory by the provider layer and the last call made
sideVars == <<call, mpesa, registry>>

\* the tables and the state of the auth middlewares
gateVars == <<tenants, tenant_api_keys, provider_credentials, AdminToken, gate>>

\* everything the ingestion and reconciliation pipeline works on
pipeVars == <<payment_events, event_queue, payments, now, held, hpc, resp,
              batch, ppc, pfound, perr, lastAppend>>

\* ------------------------------------------------------- generic helpers
Min(a, b) == IF a <= b THEN a ELSE b

SeqToSet(s) == { s[i] : i \in DOMAIN s }

\* first n elements of s
Take(s, n) == SubSeq(s, 1, Min(n, Len(s)))

\* ------------------------------------------------------- payment_events
EventIdx(evs, t, ty, x) ==
  { i \in DOMAIN evs : evs[i].tenant_id = t /\ evs[i].event_type = ty
                       /\ evs[i].external_id = x }

\* a payment_events table without the unique key: no insert ever conflicts
EventConflictNoKey(evs, t, ty, x) == FALSE

\* UNIQUE (tenant_id, event_type, external_id): the arbiter of ON CONFLICT
EventConflict(evs, t, ty, x) == EventIdx(evs, t, ty, x) # {}

\* processing_status of the row an append of key k conflicts with, "" if none
ConflictStatus(evs, k) ==
  IF EventConflict(evs, k[1], k[2], k[3])
  THEN evs[CHOOSE j \in EventIdx(evs, k[1], k[2], k[3]) : TRUE].processing_status
  ELSE ""

\* Repo.SaveEvent: INSERT ... ON CONFLICT DO UPDATE ... RETURNING id
\* a row as the INSERT writes it: status NULL, processed_at NULL and the
\* column default processing_status = 'pending'
NewEventRow(t, ty, x, raw) ==
  [tenant_id |-> t, event_type |-> ty, external_id |-> x,
   payload_json |-> raw, status |-> "NULL", processed_at |-> NoTime,
   processing_status |-> "pending"]

SaveEvent(evs, t, ty, x, raw) ==
  IF EventConflict(evs, t, ty, x)
  THEN LET i == CHOOSE j \in EventIdx(evs, t, ty, x) : TRUE
       IN [rows |-> [evs EXCEPT ![i].payload_json = raw], id |-> i]
  ELSE [rows |-> Append(evs, NewEventRow(t, ty, x, raw)),
        id |-> Len(evs) + 1]

\* ---------------------------------------------------------- event_queue
\* an event_queue table without UNIQUE (event_id): no insert ever conflicts
QueueIdxNoKey(q, eid) == {}

\* UNIQUE (event_id): the rows an enqueue of event eid conflicts with
QueueIdx(q, eid) == { i \in DOMAIN q : q[i].event_id = eid }

\* Repo.EnqueueEvent: INSERT ... ON CONFLICT (event_id) DO UPDATE SET
\* status='pending', attempts=0, next_attempt_at=now()
EnqueueEvent(q, t, eid, at) ==
  IF QueueIdx(q, eid) # {}
  THEN LET i == CHOOSE j \in QueueIdx(q, eid) : TRUE
       IN [q EXCEPT ![i].status = "pending", ![i].attempts = 0,
                    ![i].next_attempt_at = at]
  ELSE Append(q, [tenant_id |-> t, event_id |-> eid, status |-> "pending",
                  attempts |-> 0, next_attempt_at |-> at,
                  last_error |-> ""])

\* queue.go backoffAttempt, in minutes
backoffAttempt(n) ==
  IF n <= 0 THEN 1
  ELSE IF n = 1 THEN 5
  ELSE IF n = 2 THEN 30
  ELSE IF n = 3 THEN 120
  ELSE 1440

\* rows selected by the CTE "due" of FetchDueEvents
DueIdx(q, at) ==
  { i \in DOMAIN q : q[i].status \in {"pending", "failed"}
                     /\ q[i].next_attempt_at <= at }

\* Repo.FetchDueEvents: the ids leased, ordered by next_attempt_at, LIMIT
RECURSIVE OrderByNextAttempt(_, _)
OrderByNextAttempt(q, S) ==
  IF S = {} THEN <<>>
  ELSE LET m == CHOOSE i \in S :
                  \A j \in S : q[i].next_attempt_at < q[j].next_attempt_at
                     \/ (q[i].next_attempt_at = q[j].next_attempt_at /\ i <= j)
       IN <<m>> \o OrderByNextAttempt(q, S \ {m})

FetchDueIds(q, at, limit) == Take(OrderByNextAttempt(q, DueIdx(q, at)), limit)

DueEvent(evs, q, qid) ==
  LET e == evs[q[qid].event_id]
  IN [QueueID |-> qid, EventID |-> q[qid].event_id,
      TenantID |-> e.tenant_id, Type |-> e.event_type,
      ExtID |-> e.external_id, RawJSON |-> e.payload_json]

\* Repo.MarkEventDone, first statement
QueueDone(q, qid) == [q EXCEPT ![qid].status = "done"]

\* Repo.MarkEventDone, second statement
EventDone(evs, eid, at) ==
  IF evs[eid].status # "ok"
  THEN [evs EXCEPT ![eid].status = "ok",
                   ![eid].processed_at = IF @ = NoTime THEN at ELSE @]
  ELSE evs

\* Repo.MarkEventFailed, first statement
QueueFailed(q, qid, attempts, lastErr, at) ==
  [q EXCEPT ![qid].status = "failed", ![qid].attempts = attempts + 1,
            ![qid].next_attempt_at = at + backoffAttempt(attempts),
            ![qid].last_error = lastErr]

\* Repo.MarkEventFailed, second statement
EventFailed(evs, eid) ==
  IF evs[eid].status # "error" THEN [evs EXCEPT ![eid].status = "error"]
  ELSE evs

\* -------------------------------------------------------------- payments
PaymentIdx(ps, t, x) ==
  { i \in DOMAIN ps : ps[i].tenant_id = t /\ ps[i].external_id = x }

\* a payments table without the unique key: no insert ever conflicts
PaymentConflictNoKey(ps, t, x) == FALSE

\* uq_payments_tenant_external: UNIQUE (tenant_id, external_id)
PaymentConflict(ps, t, x) == PaymentIdx(ps, t, x) # {}

NewPaymentRow(t, x, invoice, amt, st) ==
  [tenant_id |-> t, external_id |-> x, invoice_no |-> invoice,
   amount |-> amt, status |-> st]

\* Repo.UpsertPaymentByExternalID: INSERT 'pending' ON CONFLICT DO UPDATE
UpsertPaymentByExternalID(ps, t, x, invoice, amt) ==
  IF PaymentConflict(ps, t, x)
  THEN [i \in DOMAIN ps |->
          IF i \in PaymentIdx(ps, t, x)
          THEN [ps[i] EXCEPT !.amount = amt,
                             !.invoice_no = IF invoice = "" THEN @ ELSE invoice]
          ELSE ps[i]]
  ELSE Append(ps, NewPaymentRow(t, x, invoice, amt, "pending"))

\* an upsert whose conflict branch also writes status = 'pending'
UpsertPendingPaymentReset(ps, t, x, invoice, amt) ==
  IF PaymentConflict(ps, t, x)
  THEN [i \in DOMAIN ps |->
          IF i \in PaymentIdx(ps, t, x)
          THEN [ps[i] EXCEPT !.amount = amt, !.invoice_no = invoice,
                             !.status = "pending"]
          ELSE ps[i]]
  ELSE Append(ps, NewPaymentRow(t, x, invoice, amt, "pending"))

\* Repo.UpsertPendingPayment: INSERT 'pending' ON CONFLICT DO UPDATE
UpsertPendingPayment(ps, t, x, invoice, amt) ==
  IF PaymentConflict(ps, t, x)
  THEN [i \in DOMAIN ps |->
          IF i \in PaymentIdx(ps, t, x)
          THEN [ps[i] EXCEPT !.amount = amt, !.invoice_no = invoice]
          ELSE ps[i]]
  ELSE Append(ps, NewPaymentRow(t, x, invoice, amt, "pending"))

\* Repo.UpsertPayment, first statement: UPDATE ... WHERE tenant_id, external_id
UpdatePayment(ps, t, x, invoice, amt, st) ==
  [i \in DOMAIN ps |->
     IF i \in PaymentIdx(ps, t, x)
     THEN [ps[i] EXCEPT !.invoice_no = IF invoice = "" THEN @ ELSE invoice,
                        !.amount = IF amt > 0 THEN amt ELSE @,
                        !.status = IF st = "" THEN @ ELSE st]
     ELSE ps[i]]

\* ------------------------------------------------------------------ Init
NoPayment == [id |-> 0, row |-> [tenant_id |-> 0, external_id |-> "", invoice_no |-> "",
                                amount |-> 0, status |-> ""]]
NoAppend == [tenant_id |-> 0, event_type |-> "", external_id |-> "", ID |-> 0,
             conflict |-> ""]

NoResp == [handler |-> "none", code |-> 0, tenant |-> 0, ext |-> "",
           etype |-> "", amount |-> 0, saved |-> FALSE]

\* values of ADMIN_TOKEN in the environment: unset, or a secret
AdminTokens == {"", "s3cret"}

\* values of the X-Admin-Token header: absent, the secret, something else
AdminHeaders == {"", "s3cret", "guess"}

\* sha256 of an API key in hex: distinct keys have distinct digests, and a
\* digest is never a key
HashAPIKey(key) == <<"sha256", key>>

\* no request has gone through a middleware yet
NoGate == [route |-> "none", hdr |-> "", key |-> 0, code |-> 0,
           next |-> FALSE, tenant |-> 0, shortcode |-> 0, cred |-> 0,
           since |-> 0, until |-> 0, max |-> 0]

\* no function has been called yet
NoCall == [fn |-> "none"]

\* mpesa.NewProvider: an empty token cache
\* goroutines (HTTP requests) that call into the one shared Provider
Goroutines == {"g1", "g2"}
\* cacheKey := cred.Shortcode + "_" + string(cred.Environment)
CacheKeys == { <<1, "sandbox">>, <<1, "production">> }
\* the zero *accessToken: no entry under the key
NoToken == [Token |-> 0, ExpiresAt |-> 0]
\* a goroutine that is not inside the Provider
Idle == [pc |-> "idle", key |-> <<1, "sandbox">>, token |-> NoToken,
         tries |-> 0, status |-> 0, err |-> ""]
NewProvider ==
  [tokenCache |-> [k \in CacheKeys |-> NoToken],
   g          |-> [x \in Goroutines |-> Idle],
   issued     |-> 0,
   crashed    |-> FALSE]

\* provider.NewRegistry: no provider registered
ProviderTypes == {"mpesa_daraja", "airtel_money", "tkash"}
\* no entry in the providers map
NoProvider == [Name |-> "", SupportedOperations |-> <<>>]
NewRegistry == [providers |-> [t \in ProviderTypes |-> NoProvider]]

\* tenant 1, on whose behalf the pipeline above runs, has been onboarded:
\* an active tenant with the API key 1 and one active credential
Init ==
  /\ tenants = << [status |-> "active"] >>
  /\ tenant_api_keys = << [tenant_id |-> 1, key_hash |-> HashAPIKey(1)] >>
  /\ provider_credentials =
       << [tenant_id |-> 1, shortcode |-> 1, is_active |-> TRUE] >>
  /\ AdminToken = "s3cret"
  /\ gate = NoGate
  /\ call = NoCall
  /\ mpesa = NewProvider
  /\ registry = NewRegistry
  /\ payment_events = <<>>
  /\ event_queue = <<>>
  /\ payments = <<>>
  /\ now = 0
  /\ held = [w \in Workers |-> <<>>]
  /\ hpc = [w \in Workers |-> "handle"]
  /\ resp = NoResp
  /\ batch = [w \in Workers |-> <<>>]
  /\ ppc = [w \in Workers |-> "begin"]
  /\ pfound = [w \in Workers |-> NoPayment]
  /\ perr = [w \in Workers |-> "nil"]
  /\ lastAppend = NoAppend

svcVars == <<batch, ppc, pfound, perr>>

\* ------------------------------------------------- ingestion, initiation
Respond(h, c, t, ty, x, amt, sv) ==
  [handler |-> h, code |-> c, tenant |-> t, ext |-> x, etype |-> ty,
   amount |-> amt, saved |-> sv]

\* handlers.MpesaC2BConfirmation: SaveEvent, then best-effort EnqueueEvent
\* and UpsertPaymentByExternalID, then 200; 500 when SaveEvent fails; A are
\* the TransAmount values delivered
MpesaC2BConfirmation(A) ==
  \E t \in Tenants, x \in {"X2"}, amt \in A, invoice \in Invoices,
     saveOk \in BOOLEAN, enqOk \in BOOLEAN, upOk \in BOOLEAN :
    LET raw == [decodable |-> TRUE, ResultCode |-> 0, Amount |-> amt,
                AmountKind |-> "string"]
        sv  == SaveEvent(payment_events, t, "c2b", x, raw)
    IN /\ EventConflict(payment_events, t, "c2b", x)
          \/ Len(payment_events) < MaxEvents
       /\ PaymentConflict(payments, t, x) \/ Len(payments) < MaxPayments
       /\ IF ~saveOk
          THEN /\ resp' = Respond("c2b_confirmation", 500, t, "c2b", x, amt, FALSE)
               /\ UNCHANGED <<payment_events, event_queue, payments>>
          ELSE /\ payment_events' = sv.rows
               /\ event_queue' = IF enqOk
                                 THEN EnqueueEvent(event_queue, t, sv.id, now)
                                 ELSE event_queue
               /\ payments' = IF upOk
                              THEN UpsertPaymentByExternalID(payments, t, x,
                                                             invoice, amt)
                              ELSE payments
               /\ resp' = Respond("c2b_confirmation", 200, t, "c2b", x, amt, TRUE)
       /\ UNCHANGED <<now, held, hpc, svcVars, lastAppend>>
  /\ UNCHANGED gateVars
  /\ UNCHANGED sideVars

\* skeleton Repo.SaveEvent: INSERT ... ON CONFLICT DO NOTHING
SaveEventDoNothing(evs, t, ty, x, raw) ==
  IF EventConflict(evs, t, ty, x) THEN evs
  ELSE Append(evs, NewEventRow(t, ty, x, raw))

\* handlers.MpesaWebhookByShortcode: ParseWebhook (400), SaveEvent, and 200
\* with {"status":"duplicate"} when SaveEvent returns an error
MpesaWebhookByShortcode ==
  \E k \in EventKeys, raw \in Payloads, saveOk \in BOOLEAN :
   LET t == k[1]  ty == k[2]  x == k[3] IN
    /\ ty \in {"stk", "c2b"}
    /\ EventConflict(payment_events, t, ty, x)
       \/ Len(payment_events) < MaxEvents
    /\ IF ~raw.decodable
       THEN /\ resp' = Respond("hooks_mpesa", 400, t, ty, x, 0, FALSE)
            /\ UNCHANGED payment_events
       ELSE IF ~saveOk
       THEN /\ resp' = Respond("hooks_mpesa", 200, t, ty, x, 0, FALSE)
            /\ UNCHANGED payment_events
       ELSE /\ payment_events' =
                 SaveEventDoNothing(payment_events, t, ty, x, raw)
            /\ resp' = Respond("hooks_mpesa", 200, t, ty, x, 0, TRUE)
    /\ UNCHANGED <<event_queue, payments, now, held, hpc, svcVars, lastAppend>>
  /\ UNCHANGED gateVars
  /\ UNCHANGED sideVars

\* the payloads a callback of type ty is delivered with
PayloadsOf(ty) ==
  IF ty \in {"stk", "b2c"} THEN Payloads
  ELSE { r \in Payloads : r.decodable /\ r.ResultCode = 0 }

\* Event Store append with any raw payload: Repo.SaveEvent called directly
\* for a callback whose key is in K
AppendEvent(K) ==
  \E k \in K : \E raw \in PayloadsOf(k[2]) :
    LET r == SaveEvent(payment_events, k[1], k[2], k[3], raw)
    IN /\ EventConflict(payment_events, k[1], k[2], k[3])
          \/ Len(payment_events) < MaxEvents
       /\ payment_events' = r.rows
       /\ lastAppend' = [tenant_id |-> k[1], event_type |-> k[2],
                         external_id |-> k[3], ID |-> r.id,
                         conflict |-> ConflictStatus(payment_events, k)]
       /\ UNCHANGED <<event_queue, payments, now, held, hpc, resp, svcVars>>
  /\ UNCHANGED gateVars
  /\ UNCHANGED sideVars

\* Dispatch Queue enqueue of a stored event: Repo.EnqueueEvent
Enqueue ==
  \E eid \in DOMAIN payment_events :
    /\ event_queue' = EnqueueEvent(event_queue, payment_events[eid].tenant_id,
                                   eid, now)
    /\ UNCHANGED <<payment_events, payments, now, held, hpc, resp,
                   svcVars, lastAppend>>
  /\ UNCHANGED gateVars
  /\ UNCHANGED sideVars

\* handlers.CreateSTK: provider call (502), UpsertPendingPayment (500), 200;
\* X are the CheckoutRequestIDs the provider may hand back, A the amounts
\* requested
CreateSTK(X, A) ==
  \E t \in Tenants, x \in X, amt \in A, ref \in Invoices \ {""},
     stkOk \in BOOLEAN, dbOk \in BOOLEAN :
    /\ PaymentConflict(payments, t, x) \/ Len(payments) < MaxPayments
    /\ IF ~stkOk
       THEN /\ resp' = Respond("create_stk", 502, t, "stk", "", amt, FALSE)
            /\ UNCHANGED payments
       ELSE IF ~dbOk
       THEN /\ resp' = Respond("create_stk", 500, t, "stk", x, amt, FALSE)
            /\ UNCHANGED payments
       ELSE /\ payments' = UpsertPendingPayment(payments, t, x, ref, amt)
            /\ resp' = Respond("create_stk", 200, t, "stk", x, amt, TRUE)
    /\ UNCHANGED <<payment_events, event_queue, now, held, hpc,
                   svcVars, lastAppend>>
  /\ UNCHANGED gateVars
  /\ UNCHANGED sideVars

\* ------------------------------------------------------ reconcile.Worker
\* reconcile.Worker.tick, FetchDueEvents: lease the due items
FetchDueEvents(w) ==
  LET ids == FetchDueIds(event_queue, now, BatchLimit)
  IN /\ held[w] = <<>>
     /\ ids # <<>>
     /\ event_queue' = [i \in DOMAIN event_queue |->
                          IF i \in SeqToSet(ids)
                          THEN [event_queue[i] EXCEPT !.status = "delivering"]
                          ELSE event_queue[i]]
     /\ held' = [held EXCEPT ![w] =
                   [k \in DOMAIN ids |->
                      DueEvent(payment_events, event_queue, ids[k])]]
     /\ hpc' = [hpc EXCEPT ![w] = "handle"]
     /\ UNCHANGED <<payment_events, payments, now, resp, svcVars, lastAppend>>
  /\ UNCHANGED gateVars
  /\ UNCHANGED sideVars

\* handleOne: amount read from the payload (float64 only)
HandleAmount(raw) == IF raw.AmountKind = "number" THEN raw.Amount ELSE 0

\* handleOne: payment status written for the item
HandleStatus(it) ==
  IF it.Type = "stk"
  THEN IF it.RawJSON.ResultCode = 0 THEN "matched" ELSE "failed"
  ELSE "matched"

\* tick, after handleOne returned nil: MarkEventDone (its error is logged)
FinishDone(w, it, markOk) ==
  /\ event_queue' = IF markOk THEN QueueDone(event_queue, it.QueueID)
                    ELSE event_queue
  /\ payment_events' = IF markOk THEN EventDone(payment_events, it.EventID, now)
                       ELSE payment_events
  /\ held' = [held EXCEPT ![w] = Tail(@)]
  /\ hpc' = [hpc EXCEPT ![w] = "handle"]

\* tick, after handleOne returned an error: MarkEventFailed(.., 0, err)
FinishFailed(w, it, lastErr, markOk) ==
  /\ event_queue' = IF markOk
                    THEN QueueFailed(event_queue, it.QueueID, 0, lastErr, now)
                    ELSE event_queue
  /\ payment_events' = IF markOk THEN EventFailed(payment_events, it.EventID)
                       ELSE payment_events
  /\ held' = [held EXCEPT ![w] = Tail(@)]
  /\ hpc' = [hpc EXCEPT ![w] = "handle"]

\* tick loop body up to the UPDATE statement of UpsertPayment
HandleOne(w) ==
  /\ held[w] # <<>>
  /\ hpc[w] = "handle"
  /\ LET it == Head(held[w])
     IN \E dbOk \in BOOLEAN, markOk \in BOOLEAN :
          IF it.Type \notin {"stk", "c2b"}
          THEN FinishDone(w, it, markOk) /\ UNCHANGED payments
          ELSE IF ~it.RawJSON.decodable
          THEN FinishFailed(w, it, "bad json", markOk) /\ UNCHANGED payments
          ELSE IF ~dbOk
          THEN FinishFailed(w, it, "upsert payment failed", markOk)
               /\ UNCHANGED payments
          ELSE IF PaymentIdx(payments, it.TenantID, it.ExtID) # {}
          THEN /\ payments' = UpdatePayment(payments, it.TenantID, it.ExtID, "",
                                 HandleAmount(it.RawJSON), HandleStatus(it))
               /\ FinishDone(w, it, markOk)
          ELSE /\ hpc' = [hpc EXCEPT ![w] = "insert"]
               /\ UNCHANGED <<payments, event_queue, payment_events, held>>
  /\ UNCHANGED <<now, resp, svcVars, lastAppend>>
  /\ UNCHANGED gateVars
  /\ UNCHANGED sideVars

\* UpsertPayment, second statement: plain INSERT under the unique constraint
HandleInsert(w) ==
  /\ held[w] # <<>>
  /\ hpc[w] = "insert"
  /\ LET it == Head(held[w])
     IN \E dbOk \in BOOLEAN, markOk \in BOOLEAN :
          IF ~dbOk \/ PaymentConflict(payments, it.TenantID, it.ExtID)
          THEN FinishFailed(w, it, "upsert payment failed", markOk)
               /\ UNCHANGED payments
          ELSE /\ Len(payments) < MaxPayments
               /\ payments' = Append(payments,
                    NewPaymentRow(it.TenantID, it.ExtID, "",
                                  HandleAmount(it.RawJSON), HandleStatus(it)))
               /\ FinishDone(w, it, markOk)
  /\ UNCHANGED <<now, resp, svcVars, lastAppend>>
  /\ UNCHANGED gateVars
  /\ UNCHANGED sideVars

\* the database clock advances
Tick ==
  /\ now < MaxNow
  /\ now' = now + 1
  /\ UNCHANGED <<payment_events, event_queue, payments, held, hpc, resp,
                 svcVars, lastAppend>>
  /\ UNCHANGED gateVars
  /\ UNCHANGED sideVars

\* --------------------------------------------- services/event pipeline
\* eventRepository.insert: INSERT ... ON CONFLICT DO UPDATE ... RETURNING id;
\* the conflict branch rewrites payload_json and leaves processing_status
insert(evs, t, ty, x, raw) ==
  IF EventConflict(evs, t, ty, x)
  THEN LET i == CHOOSE j \in EventIdx(evs, t, ty, x) : TRUE
       IN [rows |-> [evs EXCEPT ![i].payload_json = raw], id |-> i]
  ELSE [rows |-> Append(evs, NewEventRow(t, ty, x, raw)),
        id |-> Len(evs) + 1]

\* eventRepository.Save of a new event (ID = 0): insert, Scan(&e.ID)
EventSave(K) ==
  \E k \in K : \E raw \in PayloadsOf(k[2]) :
    LET r == insert(payment_events, k[1], k[2], k[3], raw)
    IN /\ EventConflict(payment_events, k[1], k[2], k[3])
          \/ Len(payment_events) < MaxEvents
       /\ payment_events' = r.rows
       /\ lastAppend' = [tenant_id |-> k[1], event_type |-> k[2],
                         external_id |-> k[3], ID |-> r.id,
                         conflict |-> ConflictStatus(payment_events, k)]
       /\ UNCHANGED <<event_queue, payments, now, held, hpc, resp, svcVars>>
  /\ UNCHANGED gateVars
  /\ UNCHANGED sideVars

\* eventRepository.FindUnprocessed: processing_status IN ('pending','queued')
\* ORDER BY received_at LIMIT; rows are stored in order of arrival
RECURSIVE Unprocessed(_, _)
Unprocessed(evs, i) ==
  IF i > Len(evs) THEN <<>>
  ELSE IF evs[i].processing_status \in {"pending", "queued"}
  THEN <<i>> \o Unprocessed(evs, i + 1)
  ELSE Unprocessed(evs, i + 1)

FindUnprocessed(evs, limit) ==
  LET ids == Take(Unprocessed(evs, 1), limit)
  IN [k \in DOMAIN ids |->
        [ID |-> ids[k], TenantID |-> evs[ids[k]].tenant_id,
         Type |-> evs[ids[k]].event_type,
         ExternalID |-> evs[ids[k]].external_id,
         RawJSON |-> evs[ids[k]].payload_json]]

\* event.Worker.processNextBatch: the SELECT; no row is locked or leased
processNextBatch(w) ==
  LET events == FindUnprocessed(payment_events, BatchLimit)
  IN /\ batch[w] = <<>>
     /\ events # <<>>
     /\ batch' = [batch EXCEPT ![w] = events]
     /\ ppc' = [ppc EXCEPT ![w] = "begin"]
     /\ perr' = [perr EXCEPT ![w] = "nil"]
     /\ pfound' = [pfound EXCEPT ![w] = NoPayment]
     /\ UNCHANGED <<payment_events, event_queue, payments, now, held, hpc,
                    resp, lastAppend>>
  /\ UNCHANGED gateVars
  /\ UNCHANGED sideVars

\* eventRepository.MarkProcessed: UPDATE ... WHERE id (any current status)
MarkProcessed(evs, id, st, at) ==
  [i \in DOMAIN evs |->
     IF i = id THEN [evs[i] EXCEPT !.processing_status = st,
                                   !.processed_at = at]
     ELSE evs[i]]

\* stkPayload.extractAmount / c2bPayload.extractAmount: number or string
extractAmount(raw) ==
  IF raw.AmountKind \in {"number", "string"} THEN raw.Amount ELSE 0

\* processSTKEvent / processC2BEvent: the provider status passed on
ProviderStatus(evt) ==
  IF evt.Type = "stk" /\ evt.RawJSON.ResultCode # 0 THEN "failed"
  ELSE "completed"

\* payment.Service.mapStatusFromProvider
mapStatusFromProvider(st) ==
  IF st \in {"completed", "0"} THEN "completed"
  ELSE IF st \in {"failed", "1"} THEN "failed"
  ELSE "pending"

\* paymentRepository.FindByExternalID; an error reads as "not found"
FindByExternalID(ps, t, x) ==
  IF PaymentIdx(ps, t, x) = {} THEN NoPayment
  ELSE LET i == CHOOSE j \in PaymentIdx(ps, t, x) : TRUE
       IN [id |-> i, row |-> ps[i]]

\* Payment.validateUpdate
validateUpdate(row, amt, st) ==
  /\ row.status = "pending" \/ st \in {"completed", "failed"}
  /\ amt >= 0

\* Payment.Update on the loaded copy
PaymentUpdate(row, invoice, amt, st) ==
  [row EXCEPT !.invoice_no = IF invoice = "" THEN @ ELSE invoice,
              !.amount = IF amt > 0 THEN amt ELSE @,
              !.status = IF st = "" THEN @ ELSE st]

\* Processor.ProcessEvent up to the SELECT of FindByExternalID
ProcessEvent(w) ==
  /\ batch[w] # <<>>
  /\ ppc[w] = "begin"
  /\ LET evt == Head(batch[w])
     IN \E dbOk \in BOOLEAN, findOk \in BOOLEAN :
          IF evt.Type \notin {"stk", "c2b"}
          THEN /\ payment_events' =
                    IF dbOk THEN MarkProcessed(payment_events, evt.ID,
                                               "completed", now)
                    ELSE payment_events
               /\ ppc' = [ppc EXCEPT ![w] = "done"]
               /\ UNCHANGED <<pfound, perr>>
          ELSE IF ~evt.RawJSON.decodable
          THEN /\ payment_events' =
                    IF dbOk THEN MarkProcessed(payment_events, evt.ID,
                                               "failed", now)
                    ELSE payment_events
               /\ ppc' = [ppc EXCEPT ![w] = "done"]
               /\ perr' = [perr EXCEPT ![w] = "parse"]
               /\ UNCHANGED pfound
          ELSE IF ~dbOk
          THEN /\ ppc' = [ppc EXCEPT ![w] = "done"]
               /\ perr' = [perr EXCEPT ![w] = "begin"]
               /\ UNCHANGED <<payment_events, pfound>>
          ELSE /\ pfound' = [pfound EXCEPT ![w] =
                    IF findOk
                    THEN FindByExternalID(payments, evt.TenantID,
                                          evt.ExternalID)
                    ELSE NoPayment]
               /\ ppc' = [ppc EXCEPT ![w] = "save"]
               /\ UNCHANGED <<payment_events, perr>>
  /\ UNCHANGED <<event_queue, payments, now, held, hpc, resp, batch,
                 lastAppend>>
  /\ UNCHANGED gateVars
  /\ UNCHANGED sideVars

\* Service.ProcessPaymentEvent after the SELECT: NewPayment or Update, Save
SavePayment(w) ==
  /\ batch[w] # <<>>
  /\ ppc[w] = "save"
  /\ LET evt == Head(batch[w])
         amt == extractAmount(evt.RawJSON)
         st  == mapStatusFromProvider(ProviderStatus(evt))
         pf  == pfound[w]
     IN \E dbOk \in BOOLEAN :
          IF pf.id = 0 /\ amt <= 0
          THEN /\ perr' = [perr EXCEPT ![w] = "create"]
               /\ UNCHANGED payments
          ELSE IF pf.id # 0 /\ ~validateUpdate(pf.row, amt, st)
          THEN /\ perr' = [perr EXCEPT ![w] = "update"]
               /\ UNCHANGED payments
          ELSE IF ~dbOk
          THEN /\ perr' = [perr EXCEPT ![w] = "db"]
               /\ UNCHANGED payments
          ELSE IF pf.id # 0
          THEN /\ payments' = [payments EXCEPT ![pf.id] =
                                 PaymentUpdate(pf.row, "", amt, st)]
               /\ UNCHANGED perr
          ELSE IF PaymentConflict(payments, evt.TenantID, evt.ExternalID)
          THEN /\ perr' = [perr EXCEPT ![w] = "unique"]
               /\ UNCHANGED payments
          ELSE /\ Len(payments) < MaxPayments
               /\ payments' = Append(payments,
                    NewPaymentRow(evt.TenantID, evt.ExternalID, "", amt, st))
               /\ UNCHANGED perr
  /\ ppc' = [ppc EXCEPT ![w] = "mark"]
  /\ UNCHANGED <<payment_events, event_queue, now, held, hpc, resp, batch,
                 pfound, lastAppend>>
  /\ UNCHANGED gateVars
  /\ UNCHANGED sideVars

\* processPaymentEvent after ProcessPaymentEvent returned: on error the
\* event is marked failed through the pool; otherwise MarkProcessed in the
\* transaction and Commit
MarkEvent(w) ==
  /\ batch[w] # <<>>
  /\ ppc[w] = "mark"
  /\ LET evt == Head(batch[w])
     IN \E dbOk \in BOOLEAN :
          IF perr[w] # "nil"
          THEN /\ payment_events' =
                    IF dbOk THEN MarkProcessed(payment_events, evt.ID,
                                               "failed", now)
                    ELSE payment_events
               /\ UNCHANGED perr
          ELSE IF dbOk
          THEN /\ payment_events' = MarkProcessed(payment_events, evt.ID,
                                                  "completed", now)
               /\ UNCHANGED perr
          ELSE /\ perr' = [perr EXCEPT ![w] = "commit"]
               /\ UNCHANGED payment_events
  /\ ppc' = [ppc EXCEPT ![w] = "done"]
  /\ UNCHANGED <<event_queue, payments, now, held, hpc, resp, batch,
                 pfound, lastAppend>>
  /\ UNCHANGED gateVars
  /\ UNCHANGED sideVars

\* processNextBatch: the loop moves on to the next event of the batch
NextEvent(w) ==
  /\ batch[w] # <<>>
  /\ ppc[w] = "done"
  /\ batch' = [batch EXCEPT ![w] = Tail(@)]
  /\ ppc' = [ppc EXCEPT ![w] = "begin"]
  /\ perr' = [perr EXCEPT ![w] = "nil"]
  /\ pfound' = [pfound EXCEPT ![w] = NoPayment]
  /\ UNCHANGED <<payment_events, event_queue, payments, now, held, hpc,
                 resp, lastAppend>>
  /\ UNCHANGED gateVars
  /\ UNCHANGED sideVars

\* eventRepository.MarkForReprocessing: UPDATE ... WHERE id AND tenant_id
MarkForReprocessing ==
  \E t \in Tenants, id \in DOMAIN payment_events :
    /\ payment_events[id].tenant_id = t
    /\ payment_events' = [payment_events EXCEPT
                            ![id].processing_status = "queued",
                            ![id].processed_at = NoTime]
    /\ UNCHANGED <<event_queue, payments, now, held, hpc, resp, svcVars,
                   lastAppend>>
  /\ UNCHANGED gateVars
  /\ UNCHANGED sideVars

\* one event worker, both append paths and replay
NextSvc ==
  \/ AppendEvent(EventKeys)
  \/ EventSave(EventKeys)
  \/ processNextBatch("w1")
  \/ ProcessEvent("w1")
  \/ SavePayment("w1")
  \/ MarkEvent("w1")
  \/ NextEvent("w1")
  \/ MarkForReprocessing

SpecSvc == Init /\ [][NextSvc]_vars

\* two event workers polling the same table
NextRace ==
  \/ EventSave(RaceKeys)
  \/ \E w \in Workers : processNextBatch(w)
  \/ \E w \in Workers : ProcessEvent(w)
  \/ \E w \in Workers : SavePayment(w)
  \/ \E w \in Workers : MarkEvent(w)
  \/ \E w \in Workers : NextEvent(w)
  \/ MarkForReprocessing

SpecRace == Init /\ [][NextRace]_vars

\* cmd/api/main.go: one reconcile.Worker over the Dispatch Queue
Next ==
  \/ AppendEvent(EventKeys)
  \/ Enqueue
  \/ FetchDueEvents("w1")
  \/ HandleOne("w1")
  \/ HandleInsert("w1")
  \/ Tick

Spec == Init /\ [][Next]_vars

\* two reconcile.Worker processes over the same Dispatch Queue
NextLease ==
  \/ AppendEvent(RaceKeys)
  \/ Enqueue
  \/ \E w \in Workers : FetchDueEvents(w)
  \/ \E w \in Workers : HandleOne(w)
  \/ \E w \in Workers : HandleInsert(w)
  \/ Tick

SpecLease == Init /\ [][NextLease]_vars

\* handlers.WebhookByShortcode: ParseWebhook (400), createDomainEvent (an
\* Event with ID 0 that is never saved), Processor.ProcessEvent on it (500
\* when it returns an error), 200
WebhookByShortcode ==
  \E k \in EventKeys : \E raw \in PayloadsOf(k[2]) :
  \E beginOk \in BOOLEAN, dbOk \in BOOLEAN :
   LET t == k[1]  ty == k[2]  x == k[3]
       evt == [ID |-> 0, TenantID |-> t, Type |-> ty, ExternalID |-> x,
               RawJSON |-> raw]
       amt == extractAmount(raw)
       st  == mapStatusFromProvider(ProviderStatus(evt))
       pf  == FindByExternalID(payments, t, x)
   IN
    /\ ty \in {"stk", "c2b"}
    /\ PaymentConflict(payments, t, x) \/ Len(payments) < MaxPayments
    /\ IF ~raw.decodable
       THEN /\ resp' = Respond("webhook", 400, t, ty, x, 0, FALSE)
            /\ UNCHANGED payments
       ELSE IF ~beginOk
       THEN /\ resp' = Respond("webhook", 500, t, ty, x, 0, FALSE)
            /\ UNCHANGED payments
       ELSE /\ resp' = Respond("webhook", 200, t, ty, x, 0, FALSE)
            /\ payments' =
                 IF ~dbOk \/ (pf.id = 0 /\ amt <= 0)
                    \/ (pf.id # 0 /\ ~validateUpdate(pf.row, amt, st))
                 THEN payments
                 ELSE IF pf.id # 0
                 THEN [payments EXCEPT ![pf.id] =
                         PaymentUpdate(pf.row, "", amt, st)]
                 ELSE Append(payments, NewPaymentRow(t, x, "", amt, st))
    /\ UNCHANGED <<payment_events, event_queue, now, held, hpc, svcVars,
                   lastAppend>>
  /\ UNCHANGED gateVars
  /\ UNCHANGED sideVars

\* handlers.STKPush: validation, Registry.STKPush (500), the provider
\* response encoded with status 200; no table is written
STKPush(X, A) ==
  \E t \in Tenants, x \in X, amt \in A, stkOk \in BOOLEAN :
    /\ resp' = IF stkOk THEN Respond("stk_push", 200, t, "stk", x, amt, FALSE)
               ELSE Respond("stk_push", 500, t, "stk", "", amt, FALSE)
    /\ UNCHANGED <<payment_events, event_queue, payments, now, held, hpc,
                   svcVars, lastAppend>>
  /\ UNCHANGED gateVars
  /\ UNCHANGED sideVars

\* every HTTP entry point of both routers, no worker running
NextIngest ==
  \/ MpesaC2BConfirmation(Amounts)
  \/ MpesaWebhookByShortcode
  \/ WebhookByShortcode
  \/ CreateSTK(ExtIDs, Amounts)
  \/ STKPush(ExtIDs, Amounts)

SpecIngest == Init /\ [][NextIngest]_vars

\* the three payment writers side by side: the initiation and confirmation
\* handlers, a reconcile.Worker and an event.Worker
NextPay ==
  \/ CreateSTK({"X2"}, {1})
  \/ MpesaC2BConfirmation({1})
  \/ FetchDueEvents("w1")
  \/ HandleOne("w1")
  \/ HandleInsert("w1")
  \/ processNextBatch("w2")
  \/ ProcessEvent("w2")
  \/ SavePayment("w2")
  \/ MarkEvent("w2")
  \/ NextEvent("w2")

SpecPay == Init /\ [][NextPay]_vars

\* reconcile.Worker.Run, case <-ctx.Done(): the worker stops with whatever
\* it had leased; a later start begins with nothing in hand
Cancel(w) ==
  /\ held[w] # <<>>
  /\ held' = [held EXCEPT ![w] = <<>>]
  /\ hpc' = [hpc EXCEPT ![w] = "handle"]
  /\ UNCHANGED <<payment_events, event_queue, payments, now, resp, svcVars,
                 lastAppend>>
  /\ UNCHANGED gateVars
  /\ UNCHANGED sideVars

\* one reconcile.Worker that may be cancelled and started again
NextStop ==
  \/ AppendEvent(EventKeys)
  \/ Enqueue
  \/ FetchDueEvents("w1")
  \/ HandleOne("w1")
  \/ HandleInsert("w1")
  \/ Tick
  \/ Cancel("w1")

\* the ticker of Run keeps firing: every step of the worker that stays
\* possible is eventually taken; callbacks and enqueues are not owed
SpecStop ==
  /\ Init /\ [][NextStop]_vars
  /\ WF_vars(FetchDueEvents("w1"))
  /\ WF_vars(HandleOne("w1"))
  /\ WF_vars(HandleInsert("w1"))

\* ------------------------------------------- tenants and auth middleware
\* config.Load at process start: AdminToken is the trimmed ADMIN_TOKEN of
\* the environment the process is started in
Load ==
  /\ AdminToken' \in AdminTokens
  /\ UNCHANGED <<tenants, tenant_api_keys, provider_credentials, gate>>
  /\ UNCHANGED pipeVars
  /\ UNCHANGED sideVars

\* the same middleware without its comparison of the two tokens
AdminAuthNoCompare(cfgToken, hdr) ==
  IF hdr = "" THEN 401
  ELSE IF cfgToken = "" THEN 403
  ELSE 0

\* middlewarex.AdminAuth: the status it writes, 0 when it calls next
AdminAuth(cfgToken, hdr) ==
  IF hdr = "" THEN 401
  ELSE IF cfgToken = "" THEN 403
  ELSE IF hdr # cfgToken THEN 401
  ELSE 0

\* the admin guard at the top of both OnboardTenant handlers
AdminGuard(cfgToken, hdr) ==
  IF cfgToken = "" \/ hdr # cfgToken THEN 401 ELSE 0

\* the three inserts of an onboarding, each of which may fail and end the
\* handler: tenant (status 'active'), API key hash, provider credential;
\* the new tenant's API key is fresh, here its own id, and so is the
\* shortcode of its credential
Onboard(tenOk, keyOk, credOk) ==
  LET tid == Len(tenants) + 1
      cid == Len(provider_credentials) + 1
  IN /\ tenants' = IF tenOk THEN Append(tenants, [status |-> "active"])
                   ELSE tenants
     /\ tenant_api_keys' =
          IF tenOk /\ keyOk
          THEN Append(tenant_api_keys,
                      [tenant_id |-> tid, key_hash |-> HashAPIKey(tid)])
          ELSE tenant_api_keys
     /\ provider_credentials' =
          IF tenOk /\ keyOk /\ credOk
          THEN Append(provider_credentials,
                      [tenant_id |-> tid, shortcode |-> cid,
                       is_active |-> TRUE])
          ELSE provider_credentials

\* POST /v1/admin/tenants/onboard of the first router: handlers.OnboardTenant
\* over postgres.Repo, guarded by its own check only
DataOnboardTenant ==
  \E hdr \in AdminHeaders, tenOk \in BOOLEAN, keyOk \in BOOLEAN,
     credOk \in BOOLEAN :
    LET code == AdminGuard(AdminToken, hdr)
    IN /\ Len(tenants) < MaxTenants
       /\ Len(provider_credentials) < MaxCredentials
       /\ IF code # 0
          THEN /\ gate' = [NoGate EXCEPT !.route = "/v1/admin/tenants/onboard",
                                         !.hdr = hdr, !.code = code]
               /\ UNCHANGED <<tenants, tenant_api_keys, provider_credentials>>
          ELSE /\ gate' = [NoGate EXCEPT
                             !.route = "/v1/admin/tenants/onboard",
                             !.hdr = hdr, !.next = TRUE,
                             !.code = IF tenOk /\ keyOk /\ credOk
                                      THEN 200 ELSE 400,
                             !.tenant = IF tenOk THEN Len(tenants) + 1 ELSE 0]
               /\ Onboard(tenOk, keyOk, credOk)
       /\ UNCHANGED AdminToken
       /\ UNCHANGED pipeVars
       /\ UNCHANGED sideVars

\* POST /admin/onboard of the second router: AdminAuth, then
\* handlers.OnboardTenant over tenant.Service with the guard repeated
AdminOnboardTenant ==
  \E hdr \in AdminHeaders, tenOk \in BOOLEAN, keyOk \in BOOLEAN,
     credOk \in BOOLEAN :
    LET mw   == AdminAuth(AdminToken, hdr)
        code == IF mw # 0 THEN mw ELSE AdminGuard(AdminToken, hdr)
    IN /\ Len(tenants) < MaxTenants
       /\ Len(provider_credentials) < MaxCredentials
       /\ IF code # 0
          THEN /\ gate' = [NoGate EXCEPT !.route = "/admin/onboard",
                                         !.hdr = hdr, !.code = code]
               /\ UNCHANGED <<tenants, tenant_api_keys, provider_credentials>>
          ELSE /\ gate' = [NoGate EXCEPT
                             !.route = "/admin/onboard",
                             !.hdr = hdr, !.next = TRUE,
                             !.code = IF tenOk /\ keyOk /\ credOk
                                      THEN 200 ELSE 500,
                             !.tenant = IF tenOk THEN Len(tenants) + 1 ELSE 0]
               /\ Onboard(tenOk, keyOk, credOk)
       /\ UNCHANGED AdminToken
       /\ UNCHANGED pipeVars
       /\ UNCHANGED sideVars

\* ReplayService.replayByTimeWindow: the events of the tenant inside the
\* window ORDER BY received_at LIMIT max, each marked for reprocessing
\* (processing_status 'queued', processed_at NULL) unless its UPDATE fails.
\* Rows are stored in order of arrival, so received_at is represented by
\* the position of the row; a bound of 0 is an absent (NULL) bound and ok
\* holds the ids whose UPDATE succeeds
replayByTimeWindow(evs, t, since, until, max, ok) ==
  LET inWindow(i) == /\ evs[i].tenant_id = t
                     /\ (since = 0 \/ i >= since)
                     /\ (until = 0 \/ i <= until)
      hit == { i \in DOMAIN evs : inWindow(i) }
      ids == { i \in hit : Cardinality({ j \in hit : j < i }) < max }
  IN [i \in DOMAIN evs |->
        IF i \in ids /\ i \in ok
        THEN [evs[i] EXCEPT !.processing_status = "queued",
                            !.processed_at = NoTime]
        ELSE evs[i]]

\* ReplayService.ReplayEvents without event ids: max defaults to 200 when
\* it is not in 1..1000
ReplayLimit(max) == IF max <= 0 \/ max > 1000 THEN 200 ELSE max

ReplayEvents(evs, t, since, until, max, ok) ==
  replayByTimeWindow(evs, t, since, until, ReplayLimit(max), ok)

\* POST /admin/events/replay of the second router: AdminAuth, then
\* handlers.ReplayEvents, which takes the tenant from the request context
\* (401 when there is none) before it decodes since, until and max and
\* calls the service.  Only APIKeyAuth puts a tenant id in the context and
\* this route is not behind it.  H, S, U, M are the header, since, until
\* and max values sent
AdminReplayEvents(H, S, U, M) ==
  \E hdr \in H, since \in S, until \in U, max \in M :
  \E ok \in SUBSET DOMAIN payment_events :
    LET mw        == AdminAuth(AdminToken, hdr)
        ctxTenant == 0
    IN /\ gate' = [NoGate EXCEPT !.route = "/admin/events/replay",
                                 !.hdr = hdr, !.next = (mw = 0),
                                 !.since = since, !.until = until,
                                 !.max = max, !.tenant = ctxTenant,
                                 !.code = IF mw # 0 THEN mw
                                          ELSE IF ctxTenant = 0 THEN 401
                                          ELSE 200]
       /\ payment_events' =
            IF mw = 0 /\ ctxTenant # 0
            THEN ReplayEvents(payment_events, ctxTenant, since, until, max, ok)
            ELSE payment_events
       /\ UNCHANGED <<tenants, tenant_api_keys, provider_credentials,
                      AdminToken>>
       /\ UNCHANGED <<event_queue, payments, now, held, hpc, resp, svcVars,
                      lastAppend>>
       /\ UNCHANGED sideVars

\* tenantRepository.Save of an existing tenant: UPDATE tenants SET status
update(ts, id, st) == [ts EXCEPT ![id].status = st]

\* Tenant.Suspend, saved: refused for a closed tenant
Suspend ==
  \E id \in DOMAIN tenants :
    /\ tenants[id].status # "closed"
    /\ tenants' = update(tenants, id, "suspended")
    /\ UNCHANGED <<tenant_api_keys, provider_credentials, AdminToken, gate>>
    /\ UNCHANGED pipeVars
    /\ UNCHANGED sideVars

\* Tenant.Activate, saved: refused for a closed tenant
Activate ==
  \E id \in DOMAIN tenants :
    /\ tenants[id].status # "closed"
    /\ tenants' = update(tenants, id, "active")
    /\ UNCHANGED <<tenant_api_keys, provider_credentials, AdminToken, gate>>
    /\ UNCHANGED pipeVars
    /\ UNCHANGED sideVars

\* Tenant.Close, saved
Close ==
  \E id \in DOMAIN tenants :
    /\ tenants' = update(tenants, id, "closed")
    /\ UNCHANGED <<tenant_api_keys, provider_credentials, AdminToken, gate>>
    /\ UNCHANGED pipeVars
    /\ UNCHANGED sideVars

\* credentialRepository.Save of a new credential of an existing tenant:
\* INSERT INTO provider_credentials ... RETURNING id
CredentialSave ==
  \E t \in DOMAIN tenants :
    /\ Len(provider_credentials) < MaxCredentials
    /\ provider_credentials' =
         Append(provider_credentials,
                [tenant_id |-> t, shortcode |-> Len(provider_credentials) + 1,
                 is_active |-> TRUE])
    /\ UNCHANGED <<tenants, tenant_api_keys, AdminToken, gate>>
    /\ UNCHANGED pipeVars
    /\ UNCHANGED sideVars

\* credentialRepository.Deactivate: UPDATE ... SET is_active = false
Deactivate ==
  \E id \in DOMAIN provider_credentials :
    /\ provider_credentials' =
         [provider_credentials EXCEPT ![id].is_active = FALSE]
    /\ UNCHANGED <<tenants, tenant_api_keys, AdminToken, gate>>
    /\ UNCHANGED pipeVars
    /\ UNCHANGED sideVars

\* Repo.LookupTenantByAPIKeyHash: the tenant joined to the key row, whatever
\* its status; 0 when no row (key_hash is UNIQUE)
LookupTenantByAPIKeyHash(ks, h) ==
  LET S == { i \in DOMAIN ks : ks[i].key_hash = h }
  IN IF S = {} THEN 0 ELSE ks[CHOOSE i \in S : TRUE].tenant_id

\* tenantRepository.FindByAPIKeyHash: the same join with t.status = 'active'
FindByAPIKeyHash(ks, ts, h) ==
  LET S == { i \in DOMAIN ks : /\ ks[i].key_hash = h
                               /\ ts[ks[i].tenant_id].status = "active" }
  IN IF S = {} THEN 0 ELSE ks[CHOOSE i \in S : TRUE].tenant_id

\* ids of the active credentials of a tenant
ActiveCredentials(cs, t) ==
  { i \in DOMAIN cs : cs[i].tenant_id = t /\ cs[i].is_active }

\* Repo.ResolveCredential: without a shortcode (0) ORDER BY id LIMIT 1 over
\* the active credentials of the tenant, with one the active credential of
\* the tenant carrying it; 0 when no row
ResolveCredential(cs, t, shortcode) ==
  LET S == IF shortcode = 0 THEN ActiveCredentials(cs, t)
           ELSE { i \in ActiveCredentials(cs, t) : cs[i].shortcode = shortcode }
  IN IF S = {} THEN 0 ELSE CHOOSE i \in S : \A j \in S : i <= j

RECURSIVE OrderByIdDesc(_)
\* ORDER BY id DESC over a set of row ids
OrderByIdDesc(S) ==
  IF S = {} THEN <<>>
  ELSE LET m == CHOOSE i \in S : \A j \in S : j <= i
       IN <<m>> \o OrderByIdDesc(S \ {m})

\* credentialRepository.FindByTenantID: the active credentials of the
\* tenant ORDER BY id DESC
FindByTenantID(cs, t) == OrderByIdDesc(ActiveCredentials(cs, t))

\* POST /v1/payments/stk of the first router up to the credential it
\* pushes with: APIKeyAuth over postgres.Repo (401 without a bearer or for
\* an unknown key), then the ResolveCredential of handlers.CreateSTK (404);
\* key 0 is a request without a bearer, shortcode 0 one without shortcode
APIKeyAuthRepo ==
  \E key \in 0..MaxTenants, sc \in 0..MaxCredentials :
    LET ten  == IF key = 0 THEN 0
                ELSE LookupTenantByAPIKeyHash(tenant_api_keys, HashAPIKey(key))
        cred == ResolveCredential(provider_credentials, ten, sc)
    IN /\ gate' =
            IF ten = 0
            THEN [NoGate EXCEPT !.route = "/v1/payments/stk", !.key = key,
                                !.code = 401]
            ELSE [NoGate EXCEPT !.route = "/v1/payments/stk", !.key = key,
                                !.next = TRUE, !.tenant = ten,
                                !.shortcode = sc, !.cred = cred,
                                !.code = IF cred = 0 THEN 404 ELSE 0]
       /\ UNCHANGED <<tenants, tenant_api_keys, provider_credentials,
                      AdminToken>>
       /\ UNCHANGED pipeVars
       /\ UNCHANGED sideVars

\* POST /api/v1/payments/stk of the second router up to the credential it
\* pushes with: APIKeyAuth over tenant.Service (401), then handlers.STKPush,
\* which takes credentials[0] of GetTenantCredentials (400 when empty)
APIKeyAuthService ==
  \E key \in 0..MaxTenants :
    LET ten   == IF key = 0 THEN 0
                 ELSE FindByAPIKeyHash(tenant_api_keys, tenants,
                                       HashAPIKey(key))
        creds == FindByTenantID(provider_credentials, ten)
    IN /\ gate' =
            IF ten = 0
            THEN [NoGate EXCEPT !.route = "/api/v1/payments/stk",
                                !.key = key, !.code = 401]
            ELSE [NoGate EXCEPT !.route = "/api/v1/payments/stk",
                                !.key = key, !.next = TRUE, !.tenant = ten,
                                !.cred = IF creds = <<>> THEN 0 ELSE creds[1],
                                !.code = IF creds = <<>> THEN 400 ELSE 0]
       /\ UNCHANGED <<tenants, tenant_api_keys, provider_credentials,
                      AdminToken>>
       /\ UNCHANGED pipeVars
       /\ UNCHANGED sideVars

\* onboarding, the life of tenants and credentials, and tenant requests
\* through the API-key gate of either router
NextTenant ==
  \/ DataOnboardTenant
  \/ Suspend
  \/ Activate
  \/ Close
  \/ CredentialSave
  \/ Deactivate
  \/ APIKeyAuthRepo
  \/ APIKeyAuthService

SpecTenant == Init /\ [][NextTenant]_vars

\* the admin routes of both routers over tenants in any status, and
\* restarts under another environment
NextAdmin ==
  \/ Load
  \/ DataOnboardTenant
  \/ AdminOnboardTenant
  \/ AdminReplayEvents(AdminHeaders, {0}, {0}, {0})
  \/ Suspend
  \/ Activate
  \/ Close

SpecAdmin == Init /\ [][NextAdmin]_vars

\* values of since sent to the replay route: absent, or the arrival time
\* of the last event that can be stored
ReplaySince == {0, MaxEvents}

\* values of until sent to the replay route: absent, or the arrival time
\* of the first event
ReplayUntil == {0, 1}

\* values of max sent to the replay route: absent, or a count
ReplayMax == {0, MaxEvents}

\* the second router with one event worker: events arrive and are
\* processed, and the operator asks for replays with or without the token
NextReplay ==
  \/ EventSave(EventKeys)
  \/ processNextBatch("w1")
  \/ ProcessEvent("w1")
  \/ SavePayment("w1")
  \/ MarkEvent("w1")
  \/ NextEvent("w1")
  \/ AdminReplayEvents({"s3cret", "guess"}, ReplaySince, ReplayUntil,
                       ReplayMax)

SpecReplay == Init /\ [][NextReplay]_vars

\* ------------------------------------------------------ C2B validation
\* c2b_mode of a credential
C2BModes == {"paybill", "buygoods"}

\* bill_ref_regex of a credential: none, blanks only, a pattern
BillRefRegexes == {"", " ", "^INV"}

\* BillRefNumber of a callback: absent, blanks only, two references, and
\* one typed with a leading blank
BillRefs == {"", " ", "INV-7", "77", " INV-7"}

\* strings.TrimSpace on the strings above
TrimSpace(s) ==
  CASE s = " " -> ""
    [] s = " INV-7" -> "INV-7"
    [] OTHER -> s

\* regexp.MatchString(rx, s) on the strings above: an unanchored search, so
\* the empty pattern is found in every string, a blank only in a string
\* that holds one, and ^INV only at the start of INV-7
MatchString(rx, s) ==
  CASE rx = "" -> TRUE
    [] rx = " " -> s \in {" ", " INV-7"}
    [] rx = "^INV" -> s = "INV-7"

\* the decision of handlers.MpesaC2BValidation for a credential it found:
\* ResultCode and ResultDesc of the c2bValidationResponse
Validation(mode, required, regex, billRef) ==
  IF mode = "paybill" /\ required /\ TrimSpace(billRef) = ""
  THEN <<1, "BillRef required">>
  ELSE IF /\ mode = "paybill"
          /\ TrimSpace(regex) # ""
          /\ ~MatchString(TrimSpace(regex), billRef)
  THEN <<1, "BillRef invalid">>
  ELSE <<0, "Accepted">>

\* POST /hooks/paywatch/c2b/validation: 400 for a body that is no JSON,
\* ResultCode 1 for a shortcode without an active credential, otherwise the
\* decision above; nothing is stored
MpesaC2BValidation ==
  \E decodable \in BOOLEAN, found \in BOOLEAN, mode \in C2BModes,
     required \in BOOLEAN, regex \in BillRefRegexes, billRef \in BillRefs :
    LET v == Validation(mode, required, regex, billRef)
    IN /\ call' =
            IF ~decodable
            THEN [fn |-> "MpesaC2BValidation", status |-> 400]
            ELSE IF ~found
            THEN [fn |-> "MpesaC2BValidation", status |-> 200,
                  found |-> FALSE, ResultCode |-> 1,
                  ResultDesc |-> "Unknown ShortCode"]
            ELSE [fn |-> "MpesaC2BValidation", status |-> 200,
                  found |-> TRUE, mode |-> mode, required |-> required,
                  regex |-> regex, bill_ref |-> billRef,
                  ResultCode |-> v[1], ResultDesc |-> v[2]]
       /\ UNCHANGED <<mpesa, registry>>
       /\ UNCHANGED gateVars
       /\ UNCHANGED pipeVars

\* C2BConfig.ValidateTransaction: the error it returns, "" for nil
ValidateTransaction(mode, required, regex, billRef) ==
  IF mode = "paybill" /\ required /\ TrimSpace(billRef) = ""
  THEN "bill reference is required for paybill transactions"
  ELSE IF /\ mode = "paybill"
          /\ regex # "" /\ billRef # ""
          /\ ~MatchString(regex, billRef)
  THEN "bill reference does not match required format"
  ELSE ""

\* ProviderCredential.ValidateC2BTransaction of an M-Pesa credential
ValidateC2BTransaction ==
  \E mode \in C2BModes, required \in BOOLEAN, regex \in BillRefRegexes,
     billRef \in BillRefs :
    /\ call' = [fn |-> "ValidateC2BTransaction", mode |-> mode,
                required |-> required, regex |-> regex, bill_ref |-> billRef,
                err |-> ValidateTransaction(mode, required, regex, billRef)]
    /\ UNCHANGED <<mpesa, registry>>
    /\ UNCHANGED gateVars
    /\ UNCHANGED pipeVars

\* C2B validation requests against credentials of every configuration
NextC2B ==
  \/ MpesaC2BValidation
  \/ ValidateC2BTransaction

SpecC2B == Init /\ [][NextC2B]_vars

\* the first deployment on its own: C2B confirmations arrive and its only
\* worker, reconcile.Worker, polls the Dispatch Queue
NextSweep ==
  \/ MpesaC2BConfirmation({1})
  \/ FetchDueEvents("w1")
  \/ HandleOne("w1")
  \/ HandleInsert("w1")
  \/ Tick

\* the ticker of Run keeps firing and time passes; callbacks are not owed
SpecSweep ==
  /\ Init /\ [][NextSweep]_vars
  /\ WF_vars(FetchDueEvents("w1"))
  /\ WF_vars(HandleOne("w1"))
  /\ WF_vars(HandleInsert("w1"))
  /\ WF_vars(Tick)

\* ---------------------------------------------- mpesa.Provider: tokens
\* expires_in of an issued token, and the margin of getAccessToken
\* (token.ExpiresAt.After(time.Now().Add(5*time.Minute))), in clock units
ExpiresIn == 2
RefreshMargin == 1
\* HTTP statuses of the Daraja API
HTTPStatuses == {200, 401, 500}

\* goroutine x is inside an access to the tokenCache map
InMap(x) == mpesa.g[x].pc \in {"lookup", "store"}
\* an access of x to the map ends while another goroutine writes the map:
\* a data race on a Go map
Racing(x) ==
  \E y \in Goroutines \ {x} :
    \/ mpesa.g[y].pc = "store"
    \/ mpesa.g[x].pc = "store" /\ mpesa.g[y].pc = "lookup"

\* Provider.STKPush up to the call of getAccessToken: the goroutine starts
\* reading p.tokenCache[cacheKey]
ProviderSTKPush(x) ==
  \E k \in CacheKeys :
    /\ ~mpesa.crashed
    /\ mpesa.g[x].pc = "idle"
    /\ mpesa' = [mpesa EXCEPT !.g[x] = [Idle EXCEPT !.pc = "lookup",
                                                    !.key = k]]
    /\ UNCHANGED <<call, registry>>
    /\ UNCHANGED gateVars
    /\ UNCHANGED pipeVars

\* what a read of the map under key k may return: the entry, or under a
\* data race also the entry a concurrent writer is storing
ReadOutcomes(x, k) ==
  {mpesa.tokenCache[k]} \cup
  {mpesa.g[y].token : y \in {z \in Goroutines \ {x} :
                               mpesa.g[z].pc = "store" /\ mpesa.g[z].key = k}}

\* getAccessToken, the cache check: a fresh entry is returned, otherwise
\* the OAuth request is sent
getAccessToken(x) ==
  /\ ~mpesa.crashed
  /\ mpesa.g[x].pc = "lookup"
  /\ \/ \E t \in ReadOutcomes(x, mpesa.g[x].key) :
          mpesa' =
            IF t # NoToken /\ t.ExpiresAt > now + RefreshMargin
            THEN [mpesa EXCEPT !.g[x].pc = "request", !.g[x].token = t]
            ELSE [mpesa EXCEPT !.g[x].pc = "oauth"]
     \/ /\ Racing(x)
        /\ mpesa' = [mpesa EXCEPT !.crashed = TRUE]
  /\ UNCHANGED <<call, registry>>
  /\ UNCHANGED gateVars
  /\ UNCHANGED pipeVars

\* getAccessToken, the reply of /oauth/v1/generate: on 200 the goroutine
\* starts writing p.tokenCache[cacheKey], otherwise STKPush fails
OAuthReply(x) ==
  \E ok \in BOOLEAN :
    /\ ~mpesa.crashed
    /\ mpesa.g[x].pc = "oauth"
    /\ IF ok
       THEN /\ mpesa.issued < MaxTokens
            /\ mpesa' = [mpesa EXCEPT
                 !.issued = @ + 1,
                 !.g[x].pc = "store",
                 !.g[x].token = [Token |-> mpesa.issued + 1,
                                 ExpiresAt |-> now + ExpiresIn]]
       ELSE mpesa' = [mpesa EXCEPT !.g[x].pc = "idle",
                                   !.g[x].err = "auth_failed"]
    /\ UNCHANGED <<call, registry>>
    /\ UNCHANGED gateVars
    /\ UNCHANGED pipeVars

\* getAccessToken, the end of the write of p.tokenCache[cacheKey]
CacheToken(x) ==
  /\ ~mpesa.crashed
  /\ mpesa.g[x].pc = "store"
  /\ \/ mpesa' = [mpesa EXCEPT !.tokenCache[mpesa.g[x].key] = mpesa.g[x].token,
                               !.g[x].pc = "request"]
     \/ /\ Racing(x)
        /\ mpesa' = [mpesa EXCEPT !.crashed = TRUE]
  /\ UNCHANGED <<call, registry>>
  /\ UNCHANGED gateVars
  /\ UNCHANGED pipeVars

\* makeAuthenticatedRequest and the rest of STKPush: the reply of the
\* processrequest call; a status outside 2xx is returned as api_error
makeAuthenticatedRequest(x) ==
  \E st \in HTTPStatuses :
    /\ ~mpesa.crashed
    /\ mpesa.g[x].pc = "request"
    /\ mpesa' = [mpesa EXCEPT
         !.g[x].pc = "idle",
         !.g[x].tries = @ + 1,
         !.g[x].status = st,
         !.g[x].err = IF st < 200 \/ st >= 300 THEN "api_error" ELSE ""]
    /\ UNCHANGED <<call, registry>>
    /\ UNCHANGED gateVars
    /\ UNCHANGED pipeVars

\* the process died on the runtime's map fault and is started again:
\* New builds a Provider with an empty cache
New ==
  /\ mpesa.crashed
  /\ mpesa' = [NewProvider EXCEPT !.issued = mpesa.issued]
  /\ UNCHANGED <<call, registry>>
  /\ UNCHANGED gateVars
  /\ UNCHANGED pipeVars

NextToken ==
  \/ \E x \in Goroutines : ProviderSTKPush(x)
  \/ \E x \in Goroutines : getAccessToken(x)
  \/ \E x \in Goroutines : OAuthReply(x)
  \/ \E x \in Goroutines : CacheToken(x)
  \/ \E x \in Goroutines : makeAuthenticatedRequest(x)
  \/ New
  \/ Tick

SpecToken == Init /\ [][NextToken]_vars

\* ------------------------------------------------- callback parsing
\* a JSON value of a callback field: its JSON type and its text
MetadataValues ==
  { [kind |-> "number", text |-> "1"],   [kind |-> "number", text |-> "2"],
    [kind |-> "number", text |-> "1.5"], [kind |-> "string", text |-> "1"],
    [kind |-> "string", text |-> "2"],   [kind |-> "string", text |-> "1.5"],
    [kind |-> "string", text |-> "abc"], [kind |-> "absent", text |-> ""] }
PhoneValues ==
  { [kind |-> "number", text |-> "254700"],
    [kind |-> "string", text |-> "254700"] }
ResultCodes == {0, 1032}

\* int(f) of the float64 a numeric text denotes
IntOf(text) == CASE text = "1" -> 1 [] text = "2" -> 2 [] text = "1.5" -> 1
                 [] OTHER -> 0

\* item.Value.(float64) / c2bCallback["TransAmount"].(float64): the type
\* assertion holds for a JSON number only
AssertFloat64(v) == IF v.kind = "number" THEN IntOf(v.text) ELSE 0

\* PhoneNumber: float64 printed with %.0f, or the string itself
Msisdn(v) == IF v.kind \in {"number", "string"} THEN v.text ELSE ""

\* WebhookService.parseSTKCallback
parseSTKCallback ==
  \E cid \in {"", "X1"}, rc \in ResultCodes, v \in MetadataValues,
     ph \in PhoneValues :
    /\ call' = IF cid = ""
               THEN [fn |-> "parseSTKCallback", value |-> v, phone |-> ph,
                     ResultCode |-> rc, err |-> "not an STK callback",
                     ExternalID |-> "", Amount |-> 0, MSISDN |-> "",
                     Status |-> ""]
               ELSE [fn |-> "parseSTKCallback", value |-> v, phone |-> ph,
                     ResultCode |-> rc, err |-> "",
                     ExternalID |-> cid, Amount |-> AssertFloat64(v),
                     MSISDN |-> Msisdn(ph),
                     Status |-> IF rc = 0 THEN "completed" ELSE "failed"]
    /\ UNCHANGED <<mpesa, registry>>
    /\ UNCHANGED gateVars
    /\ UNCHANGED pipeVars

\* WebhookService.parseC2BCallback
parseC2BCallback ==
  \E tid \in {"", "X2"}, v \in MetadataValues :
    /\ call' = IF tid = ""
               THEN [fn |-> "parseC2BCallback", value |-> v,
                     err |-> "not a C2B callback", ExternalID |-> "",
                     Amount |-> 0, Status |-> ""]
               ELSE [fn |-> "parseC2BCallback", value |-> v, err |-> "",
                     ExternalID |-> tid, Amount |-> AssertFloat64(v),
                     Status |-> "completed"]
    /\ UNCHANGED <<mpesa, registry>>
    /\ UNCHANGED gateVars
    /\ UNCHANGED pipeVars

\* the raw payload of a queue item whose amount field is v
RawOf(rc, v) ==
  [decodable |-> TRUE, ResultCode |-> rc,
   Amount |-> IF v.kind \in {"number", "string"} THEN IntOf(v.text) ELSE 0,
   AmountKind |-> v.kind]

\* Worker.handleOne up to the arguments of UpsertPayment
handleOne ==
  \E ty \in {"stk", "c2b"}, rc \in ResultCodes, v \in MetadataValues,
     ph \in PhoneValues :
    /\ call' = [fn |-> "handleOne", value |-> v, phone |-> ph, Type |-> ty,
                ResultCode |-> rc, err |-> "",
                Amount |-> HandleAmount(RawOf(rc, v)),
                MSISDN |-> IF ty = "stk" THEN Msisdn(ph)
                           ELSE IF ph.kind = "string" THEN ph.text ELSE "",
                Status |-> HandleStatus([Type |-> ty,
                                         RawJSON |-> RawOf(rc, v)])]
    /\ UNCHANGED <<mpesa, registry>>
    /\ UNCHANGED gateVars
    /\ UNCHANGED pipeVars

NextParse == parseSTKCallback \/ parseC2BCallback \/ handleOne

SpecParse == Init /\ [][NextParse]_vars

\* ------------------------------------------------ manual reprocessing
\* eventRepository.FindByID: SELECT ... WHERE id = $1
FindByID(evs, id) ==
  [ID |-> id, TenantID |-> evs[id].tenant_id, Type |-> evs[id].event_type,
   ExternalID |-> evs[id].external_id, RawJSON |-> evs[id].payload_json]

\* event.Worker.ReprocessEvent(tenantID, eventID): MarkForReprocessing, whose
\* UPDATE ... WHERE id AND tenant_id returns no error when it matches no
\* row, then ProcessEventByID(eventID) up to the call of ProcessEvent
ReprocessEvent(w) ==
  \E tenantID \in DOMAIN tenants, eventID \in 1..MaxEvents,
     markOk \in BOOLEAN :
    /\ batch[w] = <<>>
    /\ call' = [fn |-> "ReprocessEvent", tenantID |-> tenantID,
                eventID |-> eventID]
    /\ payment_events' =
         IF /\ markOk
            /\ eventID \in DOMAIN payment_events
            /\ payment_events[eventID].tenant_id = tenantID
         THEN [payment_events EXCEPT
                 ![eventID].processing_status = "queued",
                 ![eventID].processed_at = NoTime]
         ELSE payment_events
    /\ IF markOk /\ eventID \in DOMAIN payment_events
       THEN /\ batch' = [batch EXCEPT
                           ![w] = << FindByID(payment_events, eventID) >>]
            /\ ppc' = [ppc EXCEPT ![w] = "begin"]
            /\ perr' = [perr EXCEPT ![w] = "nil"]
            /\ pfound' = [pfound EXCEPT ![w] = NoPayment]
       ELSE UNCHANGED svcVars
    /\ UNCHANGED <<event_queue, payments, now, held, hpc, resp, lastAppend>>
    /\ UNCHANGED <<mpesa, registry>>
    /\ UNCHANGED gateVars

\* a second tenant is onboarded, callbacks of tenant 1 arrive, and an
\* operator reprocesses single events on behalf of either tenant
NextReprocess ==
  \/ AdminOnboardTenant
  \/ EventSave(RaceKeys)
  \/ ReprocessEvent("w2")
  \/ ProcessEvent("w2")
  \/ SavePayment("w2")
  \/ MarkEvent("w2")
  \/ NextEvent("w2")

SpecReprocess == Init /\ [][NextReprocess]_vars

\* --------------------------------------------------- provider.Registry
\* mpesa.New(cfg) as the Registry sees it: Name and SupportedOperations
MpesaProvider ==
  [Name |-> "M-Pesa (Safaricom Daraja)",
   SupportedOperations |-> <<"stk_push", "c2b", "b2c", "balance", "status">>]
\* another implementation of the Provider interface
StubProvider == [Name |-> "stub", SupportedOperations |-> <<"stk_push">>]

\* the keys of the providers map
Registered(r) == {t \in ProviderTypes : r.providers[t] # NoProvider}

\* Registry.RegisterProvider
RegisterProvider ==
  \E t \in ProviderTypes, p \in {MpesaProvider, StubProvider} :
    /\ registry' = [registry EXCEPT !.providers[t] = p]
    /\ call' = [fn |-> "RegisterProvider", type |-> t, provider |-> p]
    /\ UNCHANGED mpesa
    /\ UNCHANGED gateVars
    /\ UNCHANGED pipeVars

\* Registry.ListProviders: range over the map, in an order Go leaves open
ListProviders ==
  LET R == Registered(registry)
      n == Cardinality(R)
  IN \E types \in [1..n -> R] :
       /\ \A i \in 1..n : \A j \in 1..n : types[i] = types[j] => i = j
       /\ call' = [fn |-> "ListProviders", types |-> types]
       /\ UNCHANGED <<mpesa, registry>>
       /\ UNCHANGED gateVars
       /\ UNCHANGED pipeVars

\* the ProviderInfo built from a provider
ProviderInfoNoName(t, p) ==
  [Type |-> t, Name |-> t, SupportedOperations |-> p.SupportedOperations]
ProviderInfoOf(t, p) ==
  [Type |-> t, Name |-> p.Name, SupportedOperations |-> p.SupportedOperations]

\* Registry.GetProviderInfo (GetProvider, then the provider's own answers)
GetProviderInfo ==
  \E t \in ProviderTypes :
    /\ call' = IF t \in Registered(registry)
               THEN [fn |-> "GetProviderInfo", type |-> t, err |-> "",
                     info |-> ProviderInfoOf(t, registry.providers[t])]
               ELSE [fn |-> "GetProviderInfo", type |-> t,
                     err |-> "provider_not_found",
                     info |-> ProviderInfoOf("", NoProvider)]
    /\ UNCHANGED <<mpesa, registry>>
    /\ UNCHANGED gateVars
    /\ UNCHANGED pipeVars

NextRegistry == RegisterProvider \/ ListProviders \/ GetProviderInfo

SpecRegistry == Init /\ [][NextRegistry]_vars

\* ------------------------------------------------------- b2c results
\* events: a b2c result and an stk callback of tenant 1

\* the event worker reconciling b2c results next to stk callbacks
NextB2C ==
  \/ EventSave({ <<1, "b2c", "X1">>, <<1, "stk", "X2">> })
  \/ processNextBatch("w2")
  \/ ProcessEvent("w2")
  \/ SavePayment("w2")
  \/ MarkEvent("w2")
  \/ NextEvent("w2")

SpecB2C == Init /\ [][NextB2C]_vars

\* ------------------------------------------------------ payment upserts
\* a C2B confirmation is parsed to amount 0 when TransAmount is empty or
\* not a number

\* the three payment upserts of postgres.Repo on one key: STK initiation,
\* C2B confirmation and the reconcile worker
NextUpsert ==
  \/ CreateSTK({"X2"}, Amounts)
  \/ MpesaC2BConfirmation({0, 1})
  \/ FetchDueEvents("w1")
  \/ HandleOne("w1")
  \/ HandleInsert("w1")

SpecUpsert == Init /\ [][NextUpsert]_vars

\* ------------------------------------------------- late pending writes
\* SpecPay with an initiation whose amount differs from the callback's, so
\* that the order of the two writes shows in the row
NextLate ==
  \/ CreateSTK({"X2"}, {2})
  \/ MpesaC2BConfirmation({1})
  \/ FetchDueEvents("w1")
  \/ HandleOne("w1")
  \/ HandleInsert("w1")
  \/ processNextBatch("w2")
  \/ ProcessEvent("w2")
  \/ SavePayment("w2")
  \/ MarkEvent("w2")
  \/ NextEvent("w2")

SpecLate == Init /\ [][NextLate]_vars

\* ------------------------------------------------ replay: how many
\* ReplayService.ReplayEvents as a count, for ids events named by the
\* request, its max, and n events of the tenant inside the window: with
\* eventIds every id is marked, otherwise replayByTimeWindow marks the rows
\* its LIMIT returns; lost is the number of marks that failed
ReplayServiceReplayEvents ==
  \E ids \in {0, 1, 200, 1001},
     max \in {-1, 0, 1, 200, 201, 1000, 1001, 5000},
     n \in {0, 1, 199, 200, 201, 1000, 1001, 5000},
     lost \in {0, 1} :
    LET rows == IF ids > 0 THEN ids ELSE Min(n, ReplayLimit(max))
    IN /\ lost <= rows
       /\ call' = [fn |-> "ReplayEvents", ids |-> ids, max |-> max,
                   matching |-> n, lost |-> lost, requeued |-> rows - lost]
       /\ UNCHANGED <<mpesa, registry>>
       /\ UNCHANGED gateVars
       /\ UNCHANGED pipeVars

NextReplayMax == ReplayServiceReplayEvents

SpecReplayMax == Init /\ [][NextReplayMax]_vars

\* ------------------------------------------------------------ properties
\* C1: at any instant a queue item is leased by at most one worker: no two
\* workers hold the same queue item between FetchDueEvents and the mark
C1_SingleLease ==
  \A w1 \in Workers, w2 \in Workers :
    w1 # w2 =>
      \A i \in DOMAIN held[w1], j \in DOMAIN held[w2] :
        held[w1][i].QueueID # held[w2][j].QueueID

\* an append step of either repository
AppendStep == AppendEvent(EventKeys) \/ EventSave(EventKeys)

\* C2: after every append, exactly one row carries the appended key, the id
\* handed back is the id of that row, and every row that existed before
\* the append keeps its processing_status
C2_AppendIdempotent ==
  [][AppendStep =>
       /\ \A i \in DOMAIN payment_events', j \in DOMAIN payment_events' :
            (/\ payment_events'[i].tenant_id = payment_events'[j].tenant_id
             /\ payment_events'[i].event_type = payment_events'[j].event_type
             /\ payment_events'[i].external_id = payment_events'[j].external_id)
            => i = j
       /\ EventIdx(payment_events', lastAppend'.tenant_id,
                   lastAppend'.event_type, lastAppend'.external_id)
            = {lastAppend'.ID}
       /\ \A i \in DOMAIN payment_events :
            payment_events'[i].processing_status
              = payment_events[i].processing_status]_vars

\* C2 witness: a callback was delivered again after its event had been
\* completed, and the row is still completed
C2_Witness ==
  /\ lastAppend.conflict = "completed"
  /\ payment_events[lastAppend.ID].processing_status = "completed"
\* C3: whatever the order of the initiation write, the confirmation
\* handler's upsert and the workers' reconciliation writes, no two payment
\* rows share (tenant_id, external_id), and the key an initiation was
\* acknowledged for has exactly one row
C3_OnePaymentPerKey ==
  /\ \A i \in DOMAIN payments, j \in DOMAIN payments :
       (/\ payments[i].tenant_id = payments[j].tenant_id
        /\ payments[i].external_id = payments[j].external_id) => i = j
  /\ (resp.handler = "create_stk" /\ resp.code = 200)
       => Cardinality(PaymentIdx(payments, resp.tenant, resp.ext)) = 1

\* C3 witness: one key written by initiation (acknowledged), by the
\* confirmation path (its event is stored) and by a worker (status no longer
\* pending)
C3_Witness ==
  /\ resp.handler = "create_stk" /\ resp.code = 200
  /\ EventConflict(payment_events, resp.tenant, "c2b", resp.ext)
  /\ \E i \in PaymentIdx(payments, resp.tenant, resp.ext) :
       /\ payments[i].status # "pending"
       /\ payments[i].invoice_no = "INV-7"
\* C4: a provider callback is acknowledged with 200 only when the event
\* row of that callback is in the Event Store
C4_AckOnlyAfterAppend ==
  (resp.handler \in {"c2b_confirmation", "hooks_mpesa", "webhook"}
   /\ resp.code = 200)
    => EventConflict(payment_events, resp.tenant, resp.etype, resp.ext)

\* C9: an STK initiation is answered with 200 only when a pending payment
\* row with the provider's external id and the requested amount exists
C9_InitiationAckOnlyAfterPending ==
  (resp.handler \in {"create_stk", "stk_push"} /\ resp.code = 200)
    => \E i \in PaymentIdx(payments, resp.tenant, resp.ext) :
         /\ payments[i].amount = resp.amount
         /\ payments[i].status = "pending"

\* C5: when the processing of a payment event has ended, the payment row
\* of its external id differs from what the processor loaded only if the
\* event has been marked completed: the two writes take effect together
C5_PaymentAndMarkAtomic ==
  \A w \in Workers :
    (/\ batch[w] # <<>>
     /\ ppc[w] = "done"
     /\ Head(batch[w]).Type \in {"stk", "c2b"}
     /\ perr[w] \in {"nil", "commit"}
     /\ FindByExternalID(payments, Head(batch[w]).TenantID,
                         Head(batch[w]).ExternalID) # pfound[w])
    => payment_events[Head(batch[w]).ID].processing_status = "completed"

\* C6: an event whose processing_status is completed stays completed in
\* every step, except that a replay may queue it again
C6_CompletedOnlyReplayed ==
  [][\A i \in DOMAIN payment_events :
       payment_events[i].processing_status = "completed"
         => payment_events'[i].processing_status \in {"completed", "queued"}
    ]_vars

\* C8: after a processing run that failed on a storage error, the event is
\* still in a status the worker's poll selects, so that it is retried
C8_TransientRetried ==
  \A w \in Workers :
    (batch[w] # <<>> /\ ppc[w] = "done" /\ perr[w] \in {"db", "commit"})
    => payment_events[Head(batch[w]).ID].processing_status
         \in {"pending", "queued"}
\* the reconcile.Worker w finishes the item at the head of held[w] in this
\* step and its mark statement is applied
Handled(w) ==
  /\ held[w] # <<>>
  /\ held'[w] = Tail(held[w])
  /\ <<event_queue', payment_events'>> # <<event_queue, payment_events>>

\* C7: handling an event whose payload cannot be decoded marks the event
\* invalid and its queue item done, schedules no retry and leaves the
\* payments table as it was
C7_PoisonMarkedInvalid ==
  [][\A w \in Workers :
       (/\ Handled(w)
        /\ Head(held[w]).Type \in {"stk", "c2b"}
        /\ ~Head(held[w]).RawJSON.decodable)
       => /\ event_queue'[Head(held[w]).QueueID].status = "done"
          /\ event_queue'[Head(held[w]).QueueID].next_attempt_at
               = event_queue[Head(held[w]).QueueID].next_attempt_at
          /\ payment_events'[Head(held[w]).EventID].processing_status
               = "invalid"
          /\ payments' = payments
    ]_vars

\* C10: when the reconciliation of a decodable stk callback ends with its
\* queue item done, the payment of its external id is completed if the
\* ResultCode is 0 and failed otherwise, and the event is completed
C10_StkReconcile ==
  [][\A w \in Workers :
       (/\ Handled(w)
        /\ Head(held[w]).Type = "stk"
        /\ Head(held[w]).RawJSON.decodable
        /\ event_queue'[Head(held[w]).QueueID].status = "done")
       => /\ \E i \in PaymentIdx(payments', Head(held[w]).TenantID,
                                 Head(held[w]).ExtID) :
               payments'[i].status =
                 IF Head(held[w]).RawJSON.ResultCode = 0 THEN "completed"
                 ELSE "failed"
          /\ payment_events'[Head(held[w]).EventID].processing_status
               = "completed"
    ]_vars

\* the event worker w writes a payment in this step for an event that an
\* operator replay has queued
ReplayWrite(w) ==
  /\ batch[w] # <<>>
  /\ ppc[w] = "save" /\ ppc'[w] = "mark"
  /\ payment_events[Head(batch[w]).ID].processing_status = "queued"

\* C11: in every step a payment row changes its status only from pending
\* to completed, failed or cancelled, unless the step reprocesses an event
\* that an operator replay has queued
C11_PaymentStatusMonotone ==
  [][\A i \in DOMAIN payments :
       payments'[i].status # payments[i].status
         => \/ /\ payments[i].status = "pending"
               /\ payments'[i].status \in {"completed", "failed", "cancelled"}
            \/ \E w \in Workers : ReplayWrite(w)
    ]_vars

\* the INSERT of UpsertPayment issued by reconcile.Worker w in this step
\* collides with a row that another writer has inserted for the same key
InsertCollides(w) ==
  /\ held[w] # <<>>
  /\ hpc[w] = "insert"
  /\ held'[w] = Tail(held[w])
  /\ PaymentConflict(payments, Head(held[w]).TenantID, Head(held[w]).ExtID)
  /\ event_queue' # event_queue

\* C12: a payment write that collides with an existing row of its key is
\* never an error: the reconcile worker's item ends done, and the event
\* worker's payment step never returns a unique-key error
C12_DuplicateNeverError ==
  [][\A w \in Workers :
       /\ InsertCollides(w)
            => event_queue'[Head(held[w]).QueueID].status = "done"
       /\ perr'[w] # "unique"
    ]_vars

\* C13: an enqueue does not touch a queue row that is pending, delivering
\* or failed; only a done row is reset
C13_EnqueueResetsOnlyDone ==
  [][Enqueue =>
       \A i \in DOMAIN event_queue :
         event_queue[i].status \in {"pending", "delivering", "failed"}
           => event_queue'[i] = event_queue[i]
    ]_vars

\* C14: at all times there is at most one queue row per event id
C14_OneQueueRowPerEvent ==
  \A i \in DOMAIN event_queue, j \in DOMAIN event_queue :
    event_queue[i].event_id = event_queue[j].event_id => i = j

\* C14 witness: an event was enqueued again after its queue row had failed
\* (the row is pending and still carries the error) while both workers
\* were polling the queue
C14_Witness ==
  /\ Len(event_queue) = Len(payment_events)
  /\ \E i \in DOMAIN event_queue :
       event_queue[i].status = "pending" /\ event_queue[i].last_error # ""

\* queue row i is delivering and no worker has it in hand
Stalled(i) ==
  /\ i \in DOMAIN event_queue
  /\ event_queue[i].status = "delivering"
  /\ \A w \in Workers : \A k \in DOMAIN held[w] : held[w][k].QueueID # i

\* C15: a queue item left in delivering by a stopped worker eventually
\* leaves delivering
C15_StalledLeaseReclaimed ==
  \A i \in 1..MaxEvents : Stalled(i) ~> ~Stalled(i)

\* the event worker w is in the middle of ProcessEvent
Processing(w) == batch[w] # <<>> /\ ppc[w] \in {"save", "mark"}

\* C16: no two event workers are in the middle of processing the same
\* event at the same time
C16_ProcessingSerialized ==
  \A w1 \in Workers, w2 \in Workers :
    (w1 # w2 /\ Processing(w1) /\ Processing(w2))
      => Head(batch[w1]).ID # Head(batch[w2]).ID

\* a tenant request passes through the API-key gate of either router
GateStep == APIKeyAuthRepo \/ APIKeyAuthService

\* the tenant the presented API key belongs to, 0 when it is no one's
KeyTenant(key) == LookupTenantByAPIKeyHash(tenant_api_keys, HashAPIKey(key))

\* C17: a request whose API key belongs to a tenant that is not active
\* (suspended or closed) is rejected by the gate with 401 and does not
\* reach a tenant-scoped handler
C17_InactiveTenantRejected ==
  [][ (/\ GateStep
       /\ KeyTenant(gate'.key) # 0
       /\ tenants[KeyTenant(gate'.key)].status # "active")
      => (~gate'.next /\ gate'.code = 401) ]_vars

\* a request arrives at an admin route of either router
AdminStep ==
  \/ DataOnboardTenant
  \/ AdminOnboardTenant
  \/ AdminReplayEvents(AdminHeaders, {0}, {0}, {0})

\* C18: an admin request reaches the protected handler exactly when the
\* configured admin token is not empty and equals the X-Admin-Token header;
\* every other request (empty configured token, header missing or
\* different) is rejected with 401 or 403
C18_AdminTokenRequired ==
  [][ AdminStep =>
        /\ gate'.next <=> (AdminToken # "" /\ gate'.hdr = AdminToken)
        /\ ~gate'.next => gate'.code \in {401, 403} ]_vars

\* a tenant was onboarded with the configured token, the process was then
\* started without ADMIN_TOKEN and a request carrying a token was refused
C18_Witness ==
  /\ Len(tenants) = 2
  /\ AdminToken = ""
  /\ gate.route \in {"/admin/onboard", "/admin/events/replay"}
  /\ gate.hdr = "s3cret"
  /\ ~gate.next
  /\ gate.code = 403

\* the active credential of tenant t with the smallest id, 0 when none
FirstActive(t) ==
  LET S == { i \in DOMAIN provider_credentials :
               /\ provider_credentials[i].tenant_id = t
               /\ provider_credentials[i].is_active }
  IN IF S = {} THEN 0 ELSE CHOOSE i \in S : \A j \in S : i <= j

\* C19: a tenant request that names no shortcode is served with the
\* tenant's active credential of smallest id, so the first-created
\* credential stays the default, however many are added later, until it is
\* deactivated
C19_DefaultCredentialStable ==
  [][ (GateStep /\ gate'.next /\ gate'.shortcode = 0)
      => gate'.cred = FirstActive(gate'.tenant) ]_vars

\* the operator sends a replay request
ReplayStep ==
  AdminReplayEvents({"s3cret", "guess"}, ReplaySince, ReplayUntil, ReplayMax)

\* the events inside the window of the last replay request
InWindow ==
  { i \in DOMAIN payment_events :
      /\ (gate.since = 0 \/ i >= gate.since)
      /\ (gate.until = 0 \/ i <= gate.until) }

\* C20: a replay request of the operator (admin token accepted) with since,
\* until and max leaves every event inside the window, when there are no
\* more than max of them, with processing_status queued, ready for the
\* worker to process again
C20_ReplayRequeuesWindow ==
  [][ (/\ ReplayStep
       /\ gate'.hdr = AdminToken
       /\ gate'.max = 0 \/ gate'.max >= Cardinality(InWindow'))
      => \A i \in InWindow' :
           payment_events'[i].processing_status = "queued" ]_vars

\* C21: mark_for_reprocessing leaves an event that is already pending
\* unchanged, and sets any other event it is applied to to queued with
\* processed_at cleared
C21_ReprocessRejectsPending ==
  [][ MarkForReprocessing =>
        \A id \in DOMAIN payment_events :
          IF payment_events[id].processing_status = "pending"
          THEN payment_events'[id] = payment_events[id]
          ELSE \/ payment_events'[id] = payment_events[id]
               \/ /\ payment_events'[id].processing_status = "queued"
                  /\ payment_events'[id].processed_at = NoTime ]_vars

\* the decision the rules of C2B validation prescribe: code 0 is accept
Decision(mode, required, regex, billRef) ==
  IF mode = "paybill" /\ required /\ TrimSpace(billRef) = ""
  THEN <<1, "BillRef required">>
  ELSE IF mode = "paybill" /\ regex # "" /\ ~MatchString(regex, billRef)
  THEN <<1, "BillRef invalid">>
  ELSE <<0, "Accepted">>

\* C22: C2B validation of a paybill credential rejects with code 1
\* 'BillRef required' when bill_ref_required holds and the trimmed
\* bill_ref is empty, rejects with code 1 'BillRef invalid' when
\* bill_ref_regex is non-empty and bill_ref does not match it, and accepts
\* otherwise; for a buygoods credential it always accepts
C22_C2BValidationRules ==
  /\ (call.fn = "MpesaC2BValidation" /\ call.status = 200 /\ call.found)
       => <<call.ResultCode, call.ResultDesc>> =
            Decision(call.mode, call.required, call.regex, call.bill_ref)
  /\ call.fn = "ValidateC2BTransaction"
       => (call.err = "" <=>
             Decision(call.mode, call.required, call.regex,
                      call.bill_ref)[1] = 0)

\* event i is stored, was acknowledged, and has no row in the Dispatch Queue
Unenqueued(i) ==
  /\ i \in DOMAIN payment_events
  /\ payment_events[i].processed_at = NoTime
  /\ \A q \in DOMAIN event_queue : event_queue[q].event_id # i

\* C23: an event whose append succeeded but whose enqueue failed (the
\* callback was acknowledged all the same) is eventually picked up: it
\* gets a Dispatch Queue row or is processed
C23_UnenqueuedEventSwept ==
  \A i \in 1..MaxEvents :
    Unenqueued(i) ~> ~Unenqueued(i)

\* C24: the token cache is only touched under mutual exclusion: no access
\* to the map overlaps a write of it by another goroutine, and two
\* goroutines never refresh the token of the same key at the same time
C24_TokenCacheSynchronized ==
  \A x \in Goroutines : \A y \in Goroutines \ {x} :
    /\ ~(mpesa.g[x].pc = "store" /\ InMap(y))
    /\ ~(/\ mpesa.g[x].pc \in {"oauth", "store"}
         /\ mpesa.g[y].pc \in {"oauth", "store"}
         /\ mpesa.g[x].key = mpesa.g[y].key)

\* one goroutine's STKPush call ends in this step with a 4xx reply
Got4xx(x) ==
  /\ mpesa.g[x].pc = "request"
  /\ mpesa'.g[x].pc # "request"
  /\ mpesa'.g[x].status >= 400 /\ mpesa'.g[x].status < 500

\* C25: on a 4xx reply to the first attempt of an initiate call the cached
\* token of the key is cleared and the call is tried once more; a second
\* 4xx ends the call
C25_RetryOnceOn4xx ==
  [][\A x \in Goroutines :
       Got4xx(x) =>
         IF mpesa.g[x].tries = 0
         THEN /\ mpesa'.tokenCache[mpesa.g[x].key] = NoToken
              /\ mpesa'.g[x].pc \in {"lookup", "oauth"}
         ELSE mpesa'.g[x].pc = "idle" /\ mpesa'.g[x].tries = 2]_vars

\* the texts that denote a whole amount
NumericTexts == {"1", "2"}

\* C26: a callback whose Amount / TransAmount is a numeric value yields
\* that amount whether the value is written as a JSON number or as a
\* string
C26_AmountAnyEncoding ==
  (/\ call.fn \in {"parseSTKCallback", "parseC2BCallback", "handleOne"}
   /\ call.err = ""
   /\ call.value.kind \in {"number", "string"}
   /\ call.value.text \in NumericTexts)
    => call.Amount = IntOf(call.value.text)

\* C27: a reprocess invoked for one tenant hands only that tenant's events
\* to the processor: the event it reads, processes and marks is owned by
\* the calling tenant
C27_ReprocessTenantScoped ==
  call.fn = "ReprocessEvent" =>
    \A k \in DOMAIN batch["w2"] : batch["w2"][k].TenantID = call.tenantID

\* C28: the registry lists every registered type exactly once and nothing
\* else, and GetProviderInfo of a registered type returns the registered
\* provider's own name and operations: for M-Pesa the name
\* 'M-Pesa (Safaricom Daraja)' and five operations
C28_RegistryReportsProvider ==
  /\ call.fn = "ListProviders" =>
       /\ Len(call.types) = Cardinality(Registered(registry))
       /\ SeqToSet(call.types) = Registered(registry)
  /\ (call.fn = "GetProviderInfo" /\ call.type \in Registered(registry)) =>
       LET p == registry.providers[call.type]
       IN /\ call.err = ""
          /\ call.info.Type = call.type
          /\ call.info.Name = p.Name
          /\ call.info.SupportedOperations = p.SupportedOperations
          /\ p = MpesaProvider =>
               /\ call.info.Name = "M-Pesa (Safaricom Daraja)"
               /\ Len(call.info.SupportedOperations) = 5

\* M-Pesa is registered under mpesa_daraja and its info has been asked for
C28_Witness ==
  /\ registry.providers["mpesa_daraja"] = MpesaProvider
  /\ call.fn = "GetProviderInfo"
  /\ call.type = "mpesa_daraja"
  /\ call.err = ""

\* queue row q is marked failed in this step
MarkedFailed(q) ==
  /\ event_queue[q].status = "delivering"
  /\ event_queue'[q].status = "failed"

\* C29: every mark_failed leaves the row failed with its attempts raised by
\* one and next_attempt_at = now + backoff(attempts), the backoff being 1,
\* 5, 30 and 120 minutes for 0..3 attempts so far and 24 hours from 4 on
C29_BackoffByAttempts ==
  [][\A q \in DOMAIN event_queue :
       MarkedFailed(q) =>
         /\ event_queue'[q].attempts = event_queue[q].attempts + 1
         /\ event_queue'[q].next_attempt_at =
              now + backoffAttempt(event_queue[q].attempts)]_vars

\* queue row q is leased in this step
Leased(q) ==
  /\ event_queue[q].status # "delivering"
  /\ event_queue'[q].status = "delivering"

\* C30: only a pending or failed row whose next_attempt_at has come is
\* leased, and the next_attempt_at of a failed row is never brought
\* forward, so a failed row is not leased before its backoff has elapsed
C30_NoLeaseBeforeBackoff ==
  [][\A q \in DOMAIN event_queue :
       /\ Leased(q) => /\ event_queue[q].status \in {"pending", "failed"}
                       /\ event_queue[q].next_attempt_at <= now
       /\ (event_queue[q].status = "failed"
             /\ event_queue'[q].status \in {"pending", "failed", "delivering"})
            => event_queue'[q].next_attempt_at
                 >= event_queue[q].next_attempt_at]_vars

\* queue row q is marked done in this step
MarkedDone(q) ==
  /\ event_queue[q].status # "done"
  /\ event_queue'[q].status = "done"

\* C31: mark_done leaves the queue row done and its event with
\* processing_status completed and processed_at = now; an event that is
\* already completed is left as it is
C31_MarkDoneCompletesEvent ==
  [][\A q \in DOMAIN event_queue :
       MarkedDone(q) =>
         LET e == event_queue[q].event_id
         IN IF payment_events[e].processing_status = "completed"
            THEN payment_events'[e] = payment_events[e]
            ELSE /\ payment_events'[e].processing_status = "completed"
                 /\ payment_events'[e].processed_at = now]_vars

\* the reconcile worker w finishes an item of unknown type in this step
UnknownHandled(w) ==
  /\ held[w] # <<>>
  /\ Head(held[w]).Type \notin {"stk", "c2b"}
  /\ held'[w] # held[w]

\* the event worker w finishes an event of unknown type in this step
UnknownProcessed(w) ==
  /\ batch[w] # <<>>
  /\ ppc[w] = "begin"
  /\ Head(batch[w]).Type \notin {"stk", "c2b"}
  /\ ppc'[w] # "begin"

\* C32: finishing an event of unknown type leaves payments as they are,
\* and once its mark is written the queue row is done and the event is
\* completed
C32_UnknownTypeSkipsPayments ==
  [][/\ \A w \in Workers :
          UnknownHandled(w) =>
            LET it == Head(held[w])
            IN /\ payments' = payments
               /\ event_queue'[it.QueueID] # event_queue[it.QueueID] =>
                    /\ event_queue'[it.QueueID].status = "done"
                    /\ payment_events'[it.EventID].processing_status
                         = "completed"
     /\ \A w \in Workers :
          UnknownProcessed(w) =>
            LET evt == Head(batch[w])
            IN /\ payments' = payments
               /\ payment_events'[evt.ID] # payment_events[evt.ID] =>
                    payment_events'[evt.ID].processing_status
                      = "completed"]_vars

\* event i is reconciled in this step: the worker marks it completed
Reconciled(i) ==
  /\ payment_events[i].processing_status # "completed"
  /\ payment_events'[i].processing_status = "completed"

\* C33: when a b2c result is reconciled the payment of its external_id is
\* completed if its ResultCode is 0 and failed otherwise
C33_B2CResultSetsPayment ==
  [][\A i \in DOMAIN payment_events :
       (payment_events[i].event_type = "b2c" /\ Reconciled(i)) =>
         \E p \in DOMAIN payments' :
           /\ payments'[p].tenant_id = payment_events[i].tenant_id
           /\ payments'[p].external_id = payment_events[i].external_id
           /\ payments'[p].status =
                IF payment_events[i].payload_json.ResultCode = 0
                THEN "completed" ELSE "failed"]_vars

\* C34: a write to an existing payment row changes invoice_no only to a
\* non-empty value and amount only to a value greater than 0
C34_UpsertKeepsOnEmpty ==
  [][\A p \in DOMAIN payments :
       /\ payments'[p].invoice_no # payments[p].invoice_no
            => payments'[p].invoice_no # ""
       /\ payments'[p].amount # payments[p].amount
            => payments'[p].amount > 0]_vars

\* C35: every payment row is created with amount > 0
C35_PaymentCreatedPositive ==
  [][\A p \in DOMAIN payments' :
       p \notin DOMAIN payments => payments'[p].amount > 0]_vars

\* the transition graph of processing_status
StatusGraph ==
  { <<"pending", "queued">>, <<"pending", "completed">>,
    <<"pending", "failed">>, <<"queued", "completed">>,
    <<"queued", "failed">>, <<"completed", "queued">>,
    <<"failed", "queued">> }

\* C36: every change of a stored event's processing_status is an edge of
\* the transition graph
C36_StatusFollowsGraph ==
  [][\A i \in DOMAIN payment_events :
       payment_events'[i].processing_status
           # payment_events[i].processing_status
         => << payment_events[i].processing_status,
               payment_events'[i].processing_status >> \in StatusGraph]_vars

\* C37: processed_at is set exactly on the events whose processing_status
\* is completed or failed
C37_ProcessedAtIffTerminal ==
  \A i \in DOMAIN payment_events :
    payment_events[i].processed_at # NoTime
      <=> payment_events[i].processing_status \in {"completed", "failed"}

\* the statuses a worker writes when it reconciles a callback ('matched'
\* is what reconcile.Worker writes for a success)
ReconciledStatuses == {"completed", "failed", "matched"}

\* C38: a payment that a callback has been reconciled into is never set
\* back to pending by a later pending write of the initiation path or of
\* the confirmation handler
C38_PendingWriteKeepsStatus ==
  [][\A p \in DOMAIN payments :
       payments[p].status \in ReconciledStatuses
         => payments'[p].status # "pending"]_vars

\* the initiation's pending write (amount 2) landed on a payment that the
\* callback (amount 1) had already been reconciled into
C38_Witness ==
  /\ resp.handler = "create_stk" /\ resp.code = 200
  /\ \E p \in DOMAIN payments :
       /\ payments[p].external_id = "X2"
       /\ payments[p].status \in {"completed", "failed"}
       /\ payments[p].amount = 2

\* the event worker w writes the mark of a failed stk callback without
\* amount in this step, no storage error having occurred
FailedCallbackMarked(w) ==
  /\ batch[w] # <<>>
  /\ ppc[w] = "mark"
  /\ ppc'[w] = "done"
  /\ Head(batch[w]).Type = "stk"
  /\ Head(batch[w]).RawJSON.decodable
  /\ Head(batch[w]).RawJSON.ResultCode # 0
  /\ Head(batch[w]).RawJSON.AmountKind = "absent"
  /\ perr[w] \notin {"db", "unique"}
  /\ payment_events'[Head(batch[w]).ID] # payment_events[Head(batch[w]).ID]

\* C39: a failed stk callback without amount is processed successfully
\* even when no payment row exists yet: the event ends completed and a
\* failed payment is recorded under its external_id
C39_FailedCallbackRecorded ==
  [][\A w \in Workers :
       FailedCallbackMarked(w) =>
         LET evt == Head(batch[w])
         IN /\ payment_events'[evt.ID].processing_status = "completed"
            /\ \E p \in DOMAIN payments' :
                 /\ payments'[p].tenant_id = evt.TenantID
                 /\ payments'[p].external_id = evt.ExternalID
                 /\ payments'[p].status = "failed"]_vars

\* the limit of a replay call: 200 by default, at most 1000
ReplayLimitCapped(max) ==
  IF max <= 0 THEN 200 ELSE IF max > 1000 THEN 1000 ELSE max

\* C40: a replay call requeues at most max events, max being 200 when
\* absent or not positive and 1000 when above 1000; when no mark fails a
\* window replay requeues exactly that many of the matching events, and
\* no call requeues more than 1000
C40_ReplayMaxDefaultAndCap ==
  call.fn = "ReplayEvents" =>
    /\ call.requeued <= 1000
    /\ call.ids = 0 =>
         /\ call.requeued <= ReplayLimitCapped(call.max)
         /\ call.lost = 0 =>
              call.requeued = Min(call.matching, ReplayLimitCapped(call.max))

====
